---- MODULE Spec2Model ----
(***************************************************************************)
(* cordova-common: the config-change munge engine.                         *)
(*                                                                         *)
(* Part 1 models the Munge Store (src/ConfigChanges/munge-util.js, kept in *)
(* src/src/PluginInfo/PluginInfo.js lines 1323-1425).  JavaScript objects  *)
(* have identity: deep_add pushes the caller's element OBJECT into the     *)
(* list, so the store, the delta and the returned diff can share elements. *)
(* The model therefore keeps a heap of element objects and the munges hold *)
(* references into it.                                                     *)
(*                                                                         *)
(* Part 2 models the Tree Diff Primitives (src/src/util/xml-helpers.js),   *)
(* the Config File handle (src/src/ConfigChanges/ConfigFile.js) and the    *)
(* Platform Munger, whose process pass follows section 4.3 of the          *)
(* specification.                                                          *)
(***************************************************************************)
EXTENDS Integers, Sequences, FiniteSets, TLC

(***************************************************************************)
(* Bounds of the model.                                                    *)
(***************************************************************************)
\* largest count a caller passes in one element, and cap on stored counts
MaxCount == 2
\* largest number of elements in a delta munge built by the caller
MaxElems == 2
\* number of delta munges the caller builds in one run
MaxDeltas == 2
\* largest number of requests queued for one process pass
MaxQueue == 2
\* largest number of <config-file> elements of a plugin, and of children of
\* one of them
MaxTags == 2
MaxChildren == 2
\* largest number of children of a node that is compared
MaxKids == 2
\* largest number of elements below the root of a document that is grafted to
MaxDocKids == 3

(***************************************************************************)
(* Universe of keys.                                                       *)
(***************************************************************************)
Files == {"AndroidManifest.xml", "config.xml"}
Selectors == {"/manifest", "/manifest/application", "/widget"}
Xmls == {"<a/>", "<b/>"}
Afters == {"", "a"}

\* for (const file in files): the key order of a JS object is its insertion
\* order; the model iterates keys in one fixed order.
FileOrder == <<"AndroidManifest.xml", "config.xml">>
SelectorOrder == <<"/manifest", "/manifest/application", "/widget">>

\* the (file, selector, xml) triples the caller of the munge store adds
MTriples ==
    { <<"AndroidManifest.xml", "/manifest", "<a/>">>,
      <<"AndroidManifest.xml", "/manifest", "<b/>">>,
      <<"config.xml", "/manifest", "<a/>">> }

\* the triples it asks to remove: also one whose selector is never added
RTriples == MTriples \cup { <<"AndroidManifest.xml", "/manifest/application", "<a/>">> }

\* the after hints the caller passes with an xml
AftersOf(xml) == IF xml = "<b/>" THEN Afters ELSE {""}

NoAttrib == [k \in {} |-> ""]

(***************************************************************************)
(* Generic helpers.                                                        *)
(***************************************************************************)
\* v bound to a name: F's parameter stands for the value of v
Bind(v, F(_)) == F(v)

Min(S) == CHOOSE x \in S : \A y \in S : x <= y

RemoveAt(seq, i) == SubSeq(seq, 1, i - 1) \o SubSeq(seq, i + 1, Len(seq))

InsertAt(seq, i, e) == SubSeq(seq, 1, i - 1) \o <<e>> \o SubSeq(seq, i, Len(seq))

Range(seq) == {seq[i] : i \in 1..Len(seq)}

RECURSIVE Concat(_)
Concat(seqs) == IF seqs = <<>> THEN <<>> ELSE Head(seqs) \o Concat(Tail(seqs))

RECURSIVE Dedup(_)
Dedup(seq) ==
    IF seq = <<>> THEN <<>>
    ELSE LET rest == Dedup(SubSeq(seq, 1, Len(seq) - 1))
             e == seq[Len(seq)]
         IN IF e \in Range(rest) THEN rest ELSE Append(rest, e)

(***************************************************************************)
(* Munge objects.  { files: { <file>: { parents: { <selector>: [refs] }}}} *)
(* hasFiles = FALSE is the object literal {} that has no files property.   *)
(***************************************************************************)
EmptyObject == [hasFiles |-> FALSE, files |-> [f \in {} |-> 0]]
EmptyMunge == [hasFiles |-> TRUE, files |-> [f \in {} |-> 0]]

\* an element object { xml, count, after?, mode?, oldAttrib? } with the id
\* of the owner it is tagged with ("" for none)
OwnedElement(xml, count, after, mode, owner) ==
    [xml |-> xml, count |-> count, after |-> after, mode |-> mode,
     hasOld |-> FALSE, oldAttrib |-> NoAttrib, owner |-> owner]

Element(xml, count, after, mode) == OwnedElement(xml, count, after, mode, "")

HasFile(m, f) == m.hasFiles /\ f \in DOMAIN m.files
HasSelector(m, f, s) == HasFile(m, f) /\ s \in DOMAIN m.files[f].parents

\* the list stored at (file, selector), <<>> when a key is missing
ListAt(m, f, s) == IF HasSelector(m, f, s) THEN m.files[f].parents[s] ELSE <<>>

WithFile(m, f) ==
    IF f \in DOMAIN m.files THEN m
    ELSE [m EXCEPT !.files = [g \in DOMAIN m.files \cup {f} |->
              IF g = f THEN [parents |-> [s \in {} |-> <<>>]] ELSE m.files[g]]]

WithList(m, f, s, list) ==
    LET m1 == WithFile(m, f)
        ps == m1.files[f].parents
    IN [m1 EXCEPT !.files[f].parents =
           [t \in DOMAIN ps \cup {s} |-> IF t = s THEN list ELSE ps[t]]]

\* function getElements ({ files }, [fileName, selector], opts = { create: false })
\* err: files is undefined and files[fileName] throws a TypeError.
\* attached: the returned array is the one stored in the munge (not a fresh []).
getElementsAlwaysCreate(m, f, s, create) ==
    IF ~m.hasFiles THEN [err |-> TRUE, munge |-> m, siblings |-> <<>>, attached |-> FALSE]
    ELSE LET m2 == WithList(m, f, s, ListAt(m, f, s))
         IN [err |-> FALSE, munge |-> m2, siblings |-> ListAt(m2, f, s), attached |-> TRUE]

getElements(m, f, s, create) ==
    IF ~m.hasFiles THEN [err |-> TRUE, munge |-> m, siblings |-> <<>>, attached |-> FALSE]
    ELSE IF ~HasFile(m, f) /\ ~create
    THEN [err |-> FALSE, munge |-> m, siblings |-> <<>>, attached |-> FALSE]
    ELSE LET m1 == WithFile(m, f)
         IN IF ~HasSelector(m1, f, s) /\ ~create
            THEN [err |-> FALSE, munge |-> m1, siblings |-> <<>>, attached |-> FALSE]
            ELSE LET m2 == WithList(m1, f, s, ListAt(m1, f, s))
                 IN [err |-> FALSE, munge |-> m2, siblings |-> ListAt(m2, f, s),
                     attached |-> TRUE]

\* siblings.findIndex(sibling => sibling.xml === element.xml), 0 for -1
findIndex(h, siblings, xml) ==
    LET I == {i \in 1..Len(siblings) : h[siblings[i]].xml = xml}
    IN IF I = {} THEN 0 ELSE Min(I)

Thrown(h, m) == [err |-> TRUE, heap |-> h, munge |-> m, ret |-> FALSE]

\* exports.deep_add: r is the reference of the element object passed in
deep_addNoMerge(h, m, f, s, r) ==
    LET g == getElements(m, f, s, TRUE)
    IN IF g.err THEN Thrown(h, m)
       ELSE [err |-> FALSE, heap |-> h,
             munge |-> WithList(g.munge, f, s, Append(g.siblings, r)), ret |-> TRUE]

deep_add(h, m, f, s, r) ==
    Bind(getElements(m, f, s, TRUE), LAMBDA g :
      IF g.err THEN Thrown(h, m)
      ELSE Bind(findIndex(h, g.siblings, h[r].xml), LAMBDA i :
        IF i # 0
        THEN Bind(g.siblings[i], LAMBDA ms :
               [err |-> FALSE,
                heap |-> [h EXCEPT ![ms].after =
                                     IF h[ms].after # "" THEN h[ms].after ELSE h[r].after,
                                   ![ms].count = h[ms].count + h[r].count],
                munge |-> g.munge, ret |-> FALSE])
        ELSE [err |-> FALSE, heap |-> h,
              munge |-> WithList(g.munge, f, s, Append(g.siblings, r)),
              ret |-> TRUE]))

\* exports.deep_remove
deep_removeKeepZero(h, m, f, s, r) ==
    LET g == getElements(m, f, s, FALSE)
    IN IF g.err THEN Thrown(h, m)
       ELSE LET i == findIndex(h, g.siblings, h[r].xml)
            IN IF i = 0
               THEN [err |-> FALSE, heap |-> h, munge |-> g.munge, ret |-> TRUE]
               ELSE LET ms == g.siblings[i]
                        h2 == [h EXCEPT ![ms].count = h[ms].count - h[r].count]
                    IN IF h2[ms].count >= 0
                       THEN [err |-> FALSE, heap |-> h2, munge |-> g.munge, ret |-> FALSE]
                       ELSE [err |-> FALSE, heap |-> h2,
                             munge |-> WithList(g.munge, f, s, RemoveAt(g.siblings, i)),
                             ret |-> TRUE]

\* a deep_remove that leaves the element passed in without oldAttrib
deep_removeNoForward(h, m, f, s, r) ==
    Bind(getElements(m, f, s, FALSE), LAMBDA g :
      IF g.err THEN Thrown(h, m)
      ELSE Bind(findIndex(h, g.siblings, h[r].xml), LAMBDA i :
        IF i = 0
        THEN [err |-> FALSE, heap |-> h, munge |-> g.munge, ret |-> TRUE]
        ELSE Bind(g.siblings[i], LAMBDA ms :
          Bind([h EXCEPT ![ms].count = h[ms].count - h[r].count], LAMBDA h2 :
            IF h2[ms].count > 0
            THEN [err |-> FALSE, heap |-> h2, munge |-> g.munge, ret |-> FALSE]
            ELSE [err |-> FALSE, heap |-> h2,
                  munge |-> WithList(g.munge, f, s, RemoveAt(g.siblings, i)),
                  ret |-> TRUE]))))

deep_remove(h, m, f, s, r) ==
    Bind(getElements(m, f, s, FALSE), LAMBDA g :
      IF g.err THEN Thrown(h, m)
      ELSE Bind(findIndex(h, g.siblings, h[r].xml), LAMBDA i :
        IF i = 0
        THEN [err |-> FALSE, heap |-> h, munge |-> g.munge, ret |-> TRUE]
        ELSE Bind(g.siblings[i], LAMBDA ms :
          Bind(IF h[ms].hasOld
               THEN [h EXCEPT ![r].hasOld = TRUE, ![r].oldAttrib = h[ms].oldAttrib]
               ELSE h, LAMBDA h1 :
            Bind([h1 EXCEPT ![ms].count = h1[ms].count - h1[r].count], LAMBDA h2 :
              IF h2[ms].count > 0
              THEN [err |-> FALSE, heap |-> h2, munge |-> g.munge, ret |-> FALSE]
              ELSE [err |-> FALSE, heap |-> h2,
                    munge |-> WithList(g.munge, f, s, RemoveAt(g.siblings, i)),
                    ret |-> TRUE])))))

\* exports.deep_find: the stored element reference, 0 for undefined
deep_find(h, m, f, s, xml) ==
    LET g == getElements(m, f, s, FALSE)
        i == findIndex(h, g.siblings, xml)
    IN IF i = 0 THEN 0 ELSE g.siblings[i]

\* the <<file, selector, ref>> triples of a munge in iteration order
\* (the three nested loops of mungeItems); none when files is undefined
Triples(m) ==
    IF ~m.hasFiles THEN <<>>
    ELSE Concat([i \in 1..Len(FileOrder) |->
           IF FileOrder[i] \notin DOMAIN m.files THEN <<>>
           ELSE Concat([j \in 1..Len(SelectorOrder) |->
                  IF SelectorOrder[j] \notin DOMAIN m.files[FileOrder[i]].parents THEN <<>>
                  ELSE LET l == m.files[FileOrder[i]].parents[SelectorOrder[j]]
                       IN [k \in 1..Len(l) |-> <<FileOrder[i], SelectorOrder[j], l[k]>>]])])

\* the mungeOperation argument of mungeItems: exports.deep_add for
\* increment_munge, exports.deep_remove for decrement_munge
mungeOperation(incr, h, m, f, s, r) ==
    IF incr THEN deep_add(h, m, f, s, r) ELSE deep_remove(h, m, f, s, r)

\* function mungeItems (base, { files }, mungeOperation)
\* st = [err, heap, base, diff]; a throw of the operation leaves the loop
RECURSIVE mungeLoop(_, _, _)
mungeLoop(st, todo, incr) ==
    IF todo = <<>> \/ st.err THEN st
    ELSE Bind(Head(todo), LAMBDA t :
      Bind(mungeOperation(incr, st.heap, st.base, t[1], t[2], t[3]), LAMBDA o :
        IF o.err THEN [st EXCEPT !.err = TRUE]
        ELSE Bind(IF o.ret THEN deep_add(o.heap, st.diff, t[1], t[2], t[3])
                  ELSE [err |-> FALSE, heap |-> o.heap, munge |-> st.diff, ret |-> FALSE],
                  LAMBDA d :
               mungeLoop([err |-> FALSE, heap |-> d.heap, base |-> o.munge,
                          diff |-> d.munge], Tail(todo), incr))))

mungeItems(h, base, delta, incr) ==
    mungeLoop([err |-> FALSE, heap |-> h, base |-> base, diff |-> EmptyMunge],
              Triples(delta), incr)

\* exports.increment_munge / exports.decrement_munge / exports.clone_munge
increment_mungeReturnsDelta(h, base, delta) ==
    [mungeItems(h, base, delta, TRUE) EXCEPT !.diff = delta]

increment_munge(h, base, delta) == mungeItems(h, base, delta, TRUE)

decrement_munge(h, base, delta) == mungeItems(h, base, delta, FALSE)

clone_munge(h, munge) == increment_munge(h, EmptyObject, munge)

(***************************************************************************)
(* Part 2: the document tree and the Tree Diff Primitives                  *)
(* (src/src/util/xml-helpers.js).  A node is an elementtree Element:       *)
(* { tag, attrib, text, _children }.  A document is its root node.         *)
(***************************************************************************)
Node(tag, attrib, text, kids) == [tag |-> tag, attrib |-> attrib, text |-> text, kids |-> kids]

\* et.XML(string): the element a serialized fragment parses to
Parse(xml) ==
    CASE xml = "<a/>" -> Node("a", NoAttrib, "", <<>>)
      [] xml = "<b/>" -> Node("b", NoAttrib, "", <<>>)
      [] xml = "<application/>" -> Node("application", NoAttrib, "", <<>>)
      [] xml = "<application><b/></application>" ->
             Node("application", NoAttrib, "", <<Node("b", NoAttrib, "", <<>>)>>)
      [] xml = "<manifest/>" -> Node("manifest", NoAttrib, "", <<>>)
      [] xml = "<widget/>" -> Node("widget", NoAttrib, "", <<>>)
      [] xml = "<manifest v='1'/>" -> Node("manifest", "v" :> "1", "", <<>>)
      [] xml = "<manifest v='2'/>" -> Node("manifest", "v" :> "2", "", <<>>)
      [] xml = "<manifest v='3'/>" -> Node("manifest", "v" :> "3", "", <<>>)
      [] xml = "<manifest v='4'/>" -> Node("manifest", "v" :> "4", "", <<>>)
      [] xml = "<manifest w='9'/>" -> Node("manifest", "w" :> "9", "", <<>>)
      [] xml = "<manifest v='1' w='9'/>" -> Node("manifest", ("v" :> "1") @@ ("w" :> "9"), "", <<>>)
      [] xml = "<manifest w='9' v='1'/>" -> Node("manifest", ("w" :> "9") @@ ("v" :> "1"), "", <<>>)
      [] xml = "<key>hi</key>" -> Node("key", NoAttrib, "hi", <<>>)
      [] xml = "<key>yo</key>" -> Node("key", NoAttrib, "yo", <<>>)
      [] xml = "<key>$API_KEY</key>" -> Node("key", NoAttrib, "$API_KEY", <<>>)

\* String.prototype.trim on the texts of the model
Trim(text) == IF text = " " THEN "" ELSE text

\* the tag names of a selector: selector.split('/') without the empty head
SelectorTags(selector) ==
    CASE selector = "/manifest" -> <<"manifest">>
      [] selector = "/manifest/application" -> <<"manifest", "application">>
      [] selector = "/widget" -> <<"widget">>
      [] selector = "/widget/application" -> <<"widget", "application">>
      [] OTHER -> <<>>

\* `<${path.basename(selector)}/>` and path.dirname(selector)
ParentToCreate(selector) ==
    CASE selector = "/manifest/application" -> "<application/>"
      [] selector = "/widget/application" -> "<application/>"
      [] selector = "/widget" -> "<widget/>"
      [] OTHER -> "<manifest/>"

dirname(selector) ==
    CASE selector = "/manifest/application" -> "/manifest"
      [] selector = "/widget/application" -> "/widget"
      [] OTHER -> "/"

\* after.split(';')
AfterTags(after) ==
    CASE after = "b;a" -> <<"b", "a">>
      [] after = "c;b;a" -> <<"c", "b", "a">>
      [] OTHER -> <<after>>

\* A node of a document is addressed by the child indexes that lead to it
\* from the über-root (<<1>> is the document's root); <<>> is "no node".
Unresolved == <<>>

uberRoot(doc) == Node("uber-root", NoAttrib, "", <<doc>>)

RECURSIVE NodeAt(_, _)
NodeAt(n, ip) == IF ip = <<>> THEN n ELSE NodeAt(n.kids[Head(ip)], Tail(ip))

RECURSIVE PutAt(_, _, _)
PutAt(n, ip, new) ==
    IF ip = <<>> THEN new
    ELSE [n EXCEPT !.kids[Head(ip)] = PutAt(n.kids[Head(ip)], Tail(ip), new)]

\* the document with the node at ip replaced
WithNode(doc, ip, new) == PutAt(uberRoot(doc), ip, new).kids[1]

\* Element.find(path): the first node, in document order, the tag path leads to
RECURSIVE find(_, _)
find(n, tags) ==
    IF tags = <<>> THEN Unresolved
    ELSE LET hits == {i \in 1..Len(n.kids) :
                        /\ n.kids[i].tag = Head(tags)
                        /\ Len(tags) > 1 => find(n.kids[i], Tail(tags)) # Unresolved}
         IN IF hits = {} THEN Unresolved
            ELSE IF Len(tags) = 1 THEN <<Min(hits)>>
            ELSE <<Min(hits)>> \o find(n.kids[Min(hits)], Tail(tags))

\* resolveParent: every selector of the model is absolute
resolveParent(doc, selector) == find(uberRoot(doc), SelectorTags(selector))

\* an attribMatch that does not compare the numbers of keys
attribMatchNoLength(one, two) ==
    \A k \in DOMAIN one.attrib : k \in DOMAIN two.attrib /\ one.attrib[k] = two.attrib[k]

\* function attribMatch (one, two)
attribMatch(one, two) ==
    /\ Cardinality(DOMAIN one.attrib) = Cardinality(DOMAIN two.attrib)
    /\ \A k \in DOMAIN one.attrib : k \in DOMAIN two.attrib /\ one.attrib[k] = two.attrib[k]

\* equalNodes: tag, trimmed text, number of children, attributes, children
RECURSIVE equalNodes(_, _)
equalNodes(one, two) ==
    /\ one.tag = two.tag
    /\ Trim(one.text) = Trim(two.text)
    /\ Len(one.kids) = Len(two.kids)
    /\ attribMatch(one, two)
    /\ \A i \in 1..Len(one.kids) : equalNodes(one.kids[i], two.kids[i])

\* a findChild that finds nothing
findChildNone(node, parent) == 0

\* function findChild (node, parent): index of the first equal child, 0 for undefined
findChild(node, parent) ==
    LET I == {i \in 1..Len(parent.kids) :
                parent.kids[i].tag = node.tag /\ equalNodes(node, parent.kids[i])}
    IN IF I = {} THEN 0 ELSE Min(I)

\* childrenTags.indexOf(tag), 0 for -1
indexOf(children, tag) ==
    LET I == {i \in 1..Len(children) : children[i].tag = tag}
    IN IF I = {} THEN 0 ELSE Min(I)

\* childrenTags.lastIndexOf(tag), 0 for -1
lastIndexOf(children, tag) ==
    LET I == {i \in 1..Len(children) : children[i].tag = tag}
    IN IF I = {} THEN 0 ELSE CHOOSE i \in I : \A j \in I : j <= i

\* function findInsertIdx (children, after): the position to splice at
\* (JavaScript index foundIndex + 1, or 0 when no tag of after is present)
findInsertIdx(children, after) ==
    LET tags == AfterTags(after)
        J == {j \in 1..Len(tags) : lastIndexOf(children, tags[j]) # 0}
    IN IF J = {} THEN 0 ELSE lastIndexOf(children, tags[Min(J)])

\* nodes.forEach of graftXML on the resolved parent
RECURSIVE graftEach(_, _, _)
graftEach(parent, nodes, after) ==
    IF nodes = <<>> THEN parent
    ELSE IF findChild(Head(nodes), parent) # 0 THEN graftEach(parent, Tail(nodes), after)
    ELSE Bind(IF after # "" THEN findInsertIdx(parent.kids, after) ELSE Len(parent.kids),
              LAMBDA insertIdx :
           graftEach([parent EXCEPT !.kids = InsertAt(parent.kids, insertIdx + 1, Head(nodes))],
                     Tail(nodes), after))

\* a graftXML for which "/" resolves to the root of the document: the
\* created parent is put below the root
RECURSIVE graftXMLBelowRoot(_, _, _, _)
graftXMLBelowRoot(doc, nodes, selector, after) ==
    Bind(IF resolveParent(doc, selector) # Unresolved THEN [ok |-> TRUE, doc |-> doc]
         ELSE IF selector = "/"
         THEN [ok |-> TRUE, doc |-> [doc EXCEPT !.kids = doc.kids \o nodes]]
         ELSE graftXMLBelowRoot(doc, <<Parse(ParentToCreate(selector))>>, dirname(selector), ""),
         LAMBDA c :
      Bind(IF selector = "/" THEN <<1>> ELSE resolveParent(c.doc, selector), LAMBDA parent :
        IF selector = "/" THEN c
        ELSE IF parent = Unresolved THEN [ok |-> FALSE, doc |-> c.doc]
        ELSE [ok |-> TRUE,
              doc |-> WithNode(c.doc, parent,
                         graftEach(NodeAt(uberRoot(c.doc), parent), nodes, after))]))

\* graftXML: creates the parent (recursively) when the selector does not
\* resolve.  The recursion on "/" ends in a caught exception: false.
RECURSIVE graftXML(_, _, _, _)
graftXML(doc, nodes, selector, after) ==
    Bind(IF resolveParent(doc, selector) # Unresolved THEN [ok |-> TRUE, doc |-> doc]
         ELSE IF selector = "/" THEN [ok |-> FALSE, doc |-> doc]
         ELSE graftXML(doc, <<Parse(ParentToCreate(selector))>>, dirname(selector), ""),
         LAMBDA c :
      Bind(resolveParent(c.doc, selector), LAMBDA parent :
        IF parent = Unresolved THEN [ok |-> FALSE, doc |-> c.doc]
        ELSE [ok |-> TRUE,
              doc |-> WithNode(c.doc, parent,
                         graftEach(NodeAt(uberRoot(c.doc), parent), nodes, after))]))

\* an Object.assign that keeps the target's value of a key both have
AssignTargetWins(target, source) ==
    [k \in DOMAIN target \cup DOMAIN source |->
        IF k \in DOMAIN target THEN target[k] ELSE source[k]]

\* Object.assign(target, source)
Assign(target, source) ==
    [k \in DOMAIN target \cup DOMAIN source |->
        IF k \in DOMAIN source THEN source[k] ELSE target[k]]

RECURSIVE AssignAll(_, _)
AssignAll(target, nodes) ==
    IF nodes = <<>> THEN target
    ELSE AssignAll(Assign(target, Head(nodes).attrib), Tail(nodes))

\* a graftXMLAttrs that saves no attributes
graftXMLAttrsNoSnapshot(doc, nodes, selector, overwrite) ==
    Bind(resolveParent(doc, selector), LAMBDA target :
      IF target = Unresolved THEN [ok |-> FALSE, doc |-> doc, oldAttrib |-> NoAttrib]
      ELSE Bind(NodeAt(uberRoot(doc), target), LAMBDA t :
        [ok |-> TRUE,
         doc |-> WithNode(doc, target,
                    [t EXCEPT !.attrib = AssignAll(IF overwrite THEN NoAttrib ELSE t.attrib,
                                                   nodes)]),
         oldAttrib |-> NoAttrib]))

\* function graftXMLAttrs: oldAttrib is what the call stores in xml.oldAttrib
graftXMLAttrs(doc, nodes, selector, overwrite) ==
    Bind(resolveParent(doc, selector), LAMBDA target :
      IF target = Unresolved THEN [ok |-> FALSE, doc |-> doc, oldAttrib |-> NoAttrib]
      ELSE Bind(NodeAt(uberRoot(doc), target), LAMBDA t :
        [ok |-> TRUE,
         doc |-> WithNode(doc, target,
                    [t EXCEPT !.attrib = AssignAll(IF overwrite THEN NoAttrib ELSE t.attrib,
                                                   nodes)]),
         oldAttrib |-> t.attrib]))

graftXMLMerge(doc, nodes, selector) == graftXMLAttrs(doc, nodes, selector, FALSE)

graftXMLOverwrite(doc, nodes, selector) == graftXMLAttrs(doc, nodes, selector, TRUE)

\* nodes.forEach of pruneXML: parent.remove(matchingKid)
RECURSIVE pruneEach(_, _)
pruneEach(parent, nodes) ==
    IF nodes = <<>> THEN parent
    ELSE Bind(findChild(Head(nodes), parent), LAMBDA matchingKid :
           pruneEach(IF matchingKid = 0 THEN parent
                     ELSE [parent EXCEPT !.kids = RemoveAt(parent.kids, matchingKid)],
                     Tail(nodes)))

pruneXML(doc, nodes, selector) ==
    Bind(resolveParent(doc, selector), LAMBDA parent :
      IF parent = Unresolved THEN [ok |-> FALSE, doc |-> doc]
      ELSE [ok |-> TRUE,
            doc |-> WithNode(doc, parent, pruneEach(NodeAt(uberRoot(doc), parent), nodes))])

\* a pruneXMLRestore that assigns the old attributes onto the current ones
pruneXMLRestoreAssign(doc, selector, el) ==
    Bind(resolveParent(doc, selector), LAMBDA target :
      IF target = Unresolved THEN [ok |-> FALSE, doc |-> doc]
      ELSE Bind(NodeAt(uberRoot(doc), target), LAMBDA t :
        [ok |-> TRUE,
         doc |-> IF el.hasOld
                 THEN WithNode(doc, target, [t EXCEPT !.attrib = Assign(t.attrib, el.oldAttrib)])
                 ELSE doc]))

\* pruneXMLRestore: el is the element object passed as xml
pruneXMLRestore(doc, selector, el) ==
    Bind(resolveParent(doc, selector), LAMBDA target :
      IF target = Unresolved THEN [ok |-> FALSE, doc |-> doc]
      ELSE [ok |-> TRUE,
            doc |-> IF el.hasOld
                    THEN WithNode(doc, target,
                            [NodeAt(uberRoot(doc), target) EXCEPT !.attrib = el.oldAttrib])
                    ELSE doc])

\* the attributes of the nodes that are set (truthy) on the target are deleted
RECURSIVE removeAttrs(_, _)
removeAttrs(attrib, nodes) ==
    IF nodes = <<>> THEN attrib
    ELSE removeAttrs([k \in {j \in DOMAIN attrib :
                               ~(j \in DOMAIN Head(nodes).attrib /\ attrib[j] # "")} |->
                         attrib[k]],
                     Tail(nodes))

pruneXMLRemove(doc, selector, nodes) ==
    Bind(resolveParent(doc, selector), LAMBDA target :
      IF target = Unresolved THEN [ok |-> FALSE, doc |-> doc]
      ELSE Bind(NodeAt(uberRoot(doc), target), LAMBDA t :
        [ok |-> TRUE,
         doc |-> WithNode(doc, target, [t EXCEPT !.attrib = removeAttrs(t.attrib, nodes)])]))

(***************************************************************************)
(* The Config File handle (src/src/ConfigChanges/ConfigFile.js).  Every    *)
(* file of the model is an xml file; a file that is not on disk has        *)
(* exists = FALSE and no data.                                             *)
(***************************************************************************)
NoData == Node("", NoAttrib, "", <<>>)

\* constructor and load(): is_changed = false, exists as found on disk
ConfigFile(filepath, exists, data) ==
    [filepath |-> filepath, exists |-> exists, data |-> data, is_changed |-> FALSE]

\* fs.writeFileSync(this.filepath, ...): the file and what is written to it
Write(cf) == [filepath |-> cf.filepath, data |-> cf.data]

\* a save that leaves the dirty flag as it is
saveKeepsFlag(cf) == cf

\* save(): the data is written out (Write) and the dirty flag cleared
save(cf) == [cf EXCEPT !.is_changed = FALSE]

\* the call of a primitive: its name and what it returned
Called(name, result) == [called |-> name, result |-> result]

\* what the message of an Error names
NoError == [kind |-> "", selector |-> "", file |-> "", plugin |-> "", conflicting |-> ""]

\* `Unable to graft xml at selector "${selector}" from "${this.filepath}" during config install`
GraftErrorNoSelector(selector, filepath) ==
    [NoError EXCEPT !.kind = "Unable to graft xml", !.file = filepath]

GraftError(selector, filepath) ==
    [NoError EXCEPT !.kind = "Unable to graft xml", !.selector = selector, !.file = filepath]

\* `Pruning at selector "${selector}" from "${this.filepath}" went bad.`
PruneError(selector, filepath) ==
    [NoError EXCEPT !.kind = "Pruning went bad", !.selector = selector, !.file = filepath]

\* a graft_child whose switch has no case for 'overwrite'
graft_childNoOverwrite(h, cf, selector, r) ==
    Bind(<<Parse(h[r].xml)>>, LAMBDA xml_to_graft :
      Bind(CASE h[r].mode \in {"merge", "overwrite"} ->
                  Called("graftXMLMerge", graftXMLMerge(cf.data, xml_to_graft, selector))
             [] h[r].mode = "remove" ->
                  Called("pruneXMLRemove", pruneXMLRemove(cf.data, selector, xml_to_graft))
             [] OTHER ->
                  Called("graftXML", graftXML(cf.data, xml_to_graft, selector, h[r].after)),
           LAMBDA c :
        IF ~c.result.ok
        THEN [err |-> TRUE, error |-> GraftError(selector, cf.filepath),
              heap |-> h, cf |-> cf, called |-> c.called]
        ELSE [err |-> FALSE, error |-> NoError, called |-> c.called,
              heap |-> IF h[r].mode \in {"merge", "overwrite"}
                       THEN [h EXCEPT ![r].hasOld = TRUE, ![r].oldAttrib = c.result.oldAttrib]
                       ELSE h,
              cf |-> [cf EXCEPT !.data = c.result.doc, !.is_changed = TRUE]]))

\* graft_child (selector, xml_child): r refers to xml_child; a false result
\* of the primitive is thrown as an Error that names the selector and the file
graft_child(h, cf, selector, r) ==
    Bind(<<Parse(h[r].xml)>>, LAMBDA xml_to_graft :
      Bind(CASE h[r].mode = "merge" ->
                  Called("graftXMLMerge", graftXMLMerge(cf.data, xml_to_graft, selector))
             [] h[r].mode = "overwrite" ->
                  Called("graftXMLOverwrite", graftXMLOverwrite(cf.data, xml_to_graft, selector))
             [] h[r].mode = "remove" ->
                  Called("pruneXMLRemove", pruneXMLRemove(cf.data, selector, xml_to_graft))
             [] OTHER ->
                  Called("graftXML", graftXML(cf.data, xml_to_graft, selector, h[r].after)),
           LAMBDA c :
        IF ~c.result.ok
        THEN [err |-> TRUE, error |-> GraftError(selector, cf.filepath),
              heap |-> h, cf |-> cf, called |-> c.called]
        ELSE [err |-> FALSE, error |-> NoError, called |-> c.called,
              heap |-> IF h[r].mode \in {"merge", "overwrite"}
                       THEN [h EXCEPT ![r].hasOld = TRUE, ![r].oldAttrib = c.result.oldAttrib]
                       ELSE h,
              cf |-> [cf EXCEPT !.data = c.result.doc, !.is_changed = TRUE]]))

\* prune_child (selector, xml_child)
prune_child(h, cf, selector, r) ==
    Bind(<<Parse(h[r].xml)>>, LAMBDA xml_to_graft :
      Bind(CASE h[r].mode \in {"merge", "overwrite"} ->
                  Called("pruneXMLRestore", pruneXMLRestore(cf.data, selector, h[r]))
             [] h[r].mode = "remove" ->
                  Called("pruneXMLRemove", pruneXMLRemove(cf.data, selector, xml_to_graft))
             [] OTHER ->
                  Called("pruneXML", pruneXML(cf.data, xml_to_graft, selector)),
           LAMBDA c :
        IF ~c.result.ok
        THEN [err |-> TRUE, error |-> PruneError(selector, cf.filepath),
              heap |-> h, cf |-> cf, called |-> c.called]
        ELSE [err |-> FALSE, error |-> NoError, called |-> c.called, heap |-> h,
              cf |-> [cf EXCEPT !.data = c.result.doc, !.is_changed = TRUE]]))

(***************************************************************************)
(* The Platform Munger and the Persisted Platform State                    *)
(* (ConfigChanges.js and PlatformJson.js), as section 4.3 describes them.  *)
(***************************************************************************)
PluginIds == {"A", "B", "C"}

\* a plugin whose fragment holds a $VAR placeholder
VarPluginIds == {"A", "V"}

\* the variables of an install request: none, or a value for API_KEY
NoVars == [k \in {} |-> ""]
ApiKey(value) == [k \in {"API_KEY"} |-> value]

\* the plugin that is there when the app manifest is applied
AppPluginIds == {"E2"}

\* plugins for a project whose config.xml is on disk: C's fragment for
\* config.xml names a root the file does not have, W's names its root; X
\* declares a child of an element that Y declares with that child
SavePluginIds == {"C", "W", "X", "Y"}

\* plugins with <edit-config> children: E1 merges and E2 overwrites
\* attributes of the same target, R removes one
EditPluginIds == {"E1", "E2", "R"}

\* E3 declares the <edit-config> child that E1 declares
SharePluginIds == {"E1", "E2", "E3"}

\* the variables and the force flag a plugin can be queued with
VarsOf(p) == IF p = "V" THEN {ApiKey("hi"), ApiKey("yo")} ELSE {NoVars}
ForceOf(p) == IF p = "E2" THEN BOOLEAN ELSE {FALSE}

\* $VAR placeholders of a fragment are replaced by the values of the variables
Expand(xml, variables) ==
    IF xml = "<key>$API_KEY</key>" /\ "API_KEY" \in DOMAIN variables
    THEN (CASE variables["API_KEY"] = "hi" -> "<key>hi</key>"
            [] variables["API_KEY"] = "yo" -> "<key>yo</key>"
            [] OTHER -> xml)
    ELSE xml

\* the <config-file> and <edit-config> children each plugin declares:
\* <<file, selector, xml, after, mode>>.  A and B declare the identical
\* fragment at the identical place; C declares one under a parent the
\* manifest may lack and one for config.xml; V declares one whose text is a
\* variable.
ConfigChanges(p) ==
    CASE p = "A" -> << <<"AndroidManifest.xml", "/manifest", "<a/>", "", "">> >>
      [] p = "B" -> << <<"AndroidManifest.xml", "/manifest", "<a/>", "", "">> >>
      [] p = "C" -> << <<"AndroidManifest.xml", "/manifest/application", "<b/>", "", "">>,
                       <<"config.xml", "/manifest", "<a/>", "", "">> >>
      [] p = "V" -> << <<"AndroidManifest.xml", "/manifest", "<key>$API_KEY</key>", "", "">> >>
      [] p = "E1" -> << <<"AndroidManifest.xml", "/manifest", "<manifest v='1'/>", "", "merge">>,
                        <<"AndroidManifest.xml", "/manifest", "<a/>", "", "">> >>
      [] p = "E2" -> << <<"AndroidManifest.xml", "/manifest", "<manifest v='2'/>", "", "overwrite">>,
                        <<"config.xml", "/manifest", "<manifest v='2'/>", "", "merge">> >>
      [] p = "R" -> << <<"AndroidManifest.xml", "/manifest", "<manifest w='9'/>", "", "remove">> >>
      [] p = "E3" -> << <<"AndroidManifest.xml", "/manifest", "<manifest v='1'/>", "", "merge">> >>
      [] p = "W" -> << <<"config.xml", "/widget", "<a/>", "", "">> >>
      [] p = "X" -> << <<"AndroidManifest.xml", "/manifest/application", "<b/>", "", "">> >>
      [] p = "Y" -> << <<"AndroidManifest.xml", "/manifest", "<application><b/></application>", "", "">> >>

\* an AndroidManifest.xml whose root has attributes, without and with a
\* child that an app manifest declares
AppOriginals ==
    { Node("manifest", "v" :> "0" @@ "w" :> "9", "", <<>>),
      Node("manifest", "v" :> "0" @@ "w" :> "9", "", <<Node("b", NoAttrib, "", <<>>)>>) }

\* an AndroidManifest.xml whose root has attributes
EditOriginals == { Node("manifest", "v" :> "0" @@ "w" :> "9", "", <<>>) }

\* the project's AndroidManifest.xml as it is before any plugin is installed:
\* empty, with a child that plugins declare, with the parent one declares
Originals ==
    { Node("manifest", NoAttrib, "", <<>>),
      Node("manifest", NoAttrib, "", <<Node("a", NoAttrib, "", <<>>)>>),
      Node("manifest", NoAttrib, "", <<Node("application", NoAttrib, "", <<>>)>>) }

\* the handles config_keeper holds: config.xml is not on disk
Handles(manifest) ==
    [f \in Files |-> IF f = "AndroidManifest.xml" THEN ConfigFile(f, TRUE, manifest)
                     ELSE ConfigFile(f, FALSE, NoData)]

\* an AndroidManifest.xml without children
SaveOriginals == { Node("manifest", NoAttrib, "", <<>>) }

\* the handles of a project whose config.xml is on disk, with the root
\* <widget>
SaveHandles(manifest) ==
    [f \in Files |-> IF f = "AndroidManifest.xml" THEN ConfigFile(f, TRUE, manifest)
                     ELSE ConfigFile(f, TRUE, Node("widget", NoAttrib, "", <<>>))]

\* ConfigKeeper.save_all: every cached handle that is dirty is saved.
\* written lists the writes in order.
RECURSIVE saveLoop(_, _, _)
saveLoop(keeper, todo, written) ==
    IF todo = <<>> THEN [keeper |-> keeper, written |-> written]
    ELSE IF keeper[Head(todo)].is_changed
         THEN saveLoop([keeper EXCEPT ![Head(todo)] = save(@)], Tail(todo),
                       Append(written, Write(keeper[Head(todo)])))
         ELSE saveLoop(keeper, Tail(todo), written)

save_all(keeper) == saveLoop(keeper, FileOrder, <<>>)

EmptyQueue == [installed |-> <<>>, uninstalled |-> <<>>]

\* the entries of prepare_queue.installed and prepare_queue.uninstalled
InstallRequest(p, variables, force) == [plugin |-> p, vars |-> variables, force |-> force]
UninstallRequest(p) == [plugin |-> p]

\* the plugin ids of the entries of a queue
QueuedPlugins(q) == [i \in 1..Len(q) |-> q[i].plugin]

\* installed_plugins is a map plugin id -> variables
NoPlugins == [p \in {} |-> NoVars]

\* a recording that forgets the variables
addPluginNoVars(installed, p, variables) ==
    [q \in DOMAIN installed \cup {p} |-> IF q = p THEN NoVars ELSE installed[q]]

addPlugin(installed, p, variables) ==
    [q \in DOMAIN installed \cup {p} |-> IF q = p THEN variables ELSE installed[q]]
removePlugin(installed, p) == [q \in DOMAIN installed \ {p} |-> installed[q]]

\* the owner a fragment is tagged with: the plugin for its <edit-config>
\* children, the reserved id for everything the app manifest declares
Owner(owner, mode) == IF owner = "config.xml" \/ mode # "" THEN owner ELSE ""

\* generate_plugin_config_munge: one new element object with count 1 per
\* declared child, its placeholders expanded, deep_add'ed into a new munge
RECURSIVE generateLoop(_, _, _, _, _)
generateLoop(h, m, changes, variables, owner) ==
    IF changes = <<>> THEN [heap |-> h, munge |-> m]
    ELSE Bind(Head(changes), LAMBDA c :
      Bind(Append(h, OwnedElement(Expand(c[3], variables), 1, c[4], c[5], Owner(owner, c[5]))),
           LAMBDA h1 :
        Bind(deep_add(h1, m, c[1], c[2], Len(h1)), LAMBDA a :
          generateLoop(a.heap, a.munge, Tail(changes), variables, owner))))

\* a <config-file> element as getConfigFiles returns it: xmls is
\* tag.getchildren()
ConfigFileTag(target, parent, xmls) == [target |-> target, parent |-> parent, xmls |-> xmls]

\* a child that is an XML comment
IsComment(xml) == xml = "<!--c-->"

\* children kept with their comments
leavesWithComments(xmls) == xmls

\* the children that become Fragments: XML comment nodes are excluded
RECURSIVE leaves(_)
leaves(xmls) ==
    IF xmls = <<>> THEN <<>>
    ELSE IF IsComment(Head(xmls)) THEN leaves(Tail(xmls))
         ELSE <<Head(xmls)>> \o leaves(Tail(xmls))

\* changes.forEach(change => change.xmls.forEach(xml => ...)): one
\* <<file, selector, xml, after, mode>> per child, in document order
RECURSIVE Changes(_)
Changes(tags) ==
    IF tags = <<>> THEN <<>>
    ELSE [k \in 1..Len(leaves(Head(tags).xmls)) |->
            <<Head(tags).target, Head(tags).parent, leaves(Head(tags).xmls)[k], "", "">>]
         \o Changes(Tail(tags))

generate_plugin_config_munge(h, p, variables) ==
    generateLoop(h, EmptyMunge, ConfigChanges(p), variables, p)

\* the attributes a fragment sets
AttribOf(el) == Parse(el.xml).attrib

\* the conflict rule for edit-config: the owners of the merge / overwrite
\* fragments config_munge holds at the target of a merge / overwrite
\* fragment of munge g, with other attribute values and another owner
conflicting(h, munge, g, p) ==
    {h[old[3]].owner : old \in
        {t \in Range(Triples(munge)) :
            /\ h[t[3]].mode \in {"merge", "overwrite"}
            /\ h[t[3]].owner # p
            /\ \E n \in Range(Triples(g)) :
                  /\ n[1] = t[1]
                  /\ n[2] = t[2]
                  /\ h[n[3]].mode \in {"merge", "overwrite"}
                  /\ AttribOf(h[n[3]]) # AttribOf(h[t[3]])}}

\* the Error of a refused install: it names the plugin and the conflicting
\* plugin, or the plugin and config.xml
ConflictError(p, other) ==
    [NoError EXCEPT !.kind = "conflict", !.plugin = p, !.conflicting = other]

\* the state one pass works on; log lists what the pass did, in order
PassState(h, m, keeper, installed) ==
    [err |-> FALSE, heap |-> h, munge |-> m, keeper |-> keeper, installed |-> installed,
     grafts |-> <<>>, prunes |-> <<>>, log |-> <<>>, error |-> NoError]

\* an entry of the log: a decrement or an increment of config_munge for a
\* plugin and its variables, or a call of a primitive for a fragment
MungeEvent(op, p, variables, returned) ==
    [op |-> op, plugin |-> p, vars |-> variables, returned |-> returned,
     file |-> "", selector |-> "", xml |-> "", mode |-> "", called |-> ""]
FragmentEvent(op, el, file, selector, called) ==
    [op |-> op, plugin |-> "", vars |-> NoVars, returned |-> <<>>,
     file |-> file, selector |-> selector, xml |-> el.xml, mode |-> el.mode, called |-> called]

\* the fragments of the munge an increment or a decrement returned
Fragments(h, m) ==
    [i \in 1..Len(Triples(m)) |->
        [file |-> Triples(m)[i][1], selector |-> Triples(m)[i][2],
         xml |-> h[Triples(m)[i][3]].xml, mode |-> h[Triples(m)[i][3]].mode]]

\* a pass for which a fragment whose file does not exist is an error
RECURSIVE applyFragmentsMissingFails(_, _, _)
applyFragmentsMissingFails(st, todo, remove) ==
    IF todo = <<>> \/ st.err THEN st
    ELSE Bind(Head(todo), LAMBDA t :
      IF ~st.keeper[t[1]].exists THEN [st EXCEPT !.err = TRUE]
      ELSE Bind(IF remove THEN prune_child(st.heap, st.keeper[t[1]], t[2], t[3])
                ELSE graft_child(st.heap, st.keeper[t[1]], t[2], t[3]), LAMBDA o :
        IF o.err THEN [st EXCEPT !.err = TRUE, !.error = o.error]
        ELSE applyFragmentsMissingFails(
               [st EXCEPT !.heap = o.heap,
                          !.keeper[t[1]] = o.cf,
                          !.log = Append(@, FragmentEvent(IF remove THEN "prune" ELSE "graft",
                                                          st.heap[t[3]], t[1], t[2], o.called))],
               Tail(todo), remove)))

\* every fragment of the diff goes to the handle of its file: prune_child
\* when removing, graft_child otherwise; a file that does not exist is skipped
RECURSIVE applyFragments(_, _, _)
applyFragments(st, todo, remove) ==
    IF todo = <<>> \/ st.err THEN st
    ELSE Bind(Head(todo), LAMBDA t :
      IF ~st.keeper[t[1]].exists THEN applyFragments(st, Tail(todo), remove)
      ELSE Bind(IF remove THEN prune_child(st.heap, st.keeper[t[1]], t[2], t[3])
                ELSE graft_child(st.heap, st.keeper[t[1]], t[2], t[3]), LAMBDA o :
        IF o.err THEN [st EXCEPT !.err = TRUE, !.error = o.error]
        ELSE applyFragments(
               [st EXCEPT !.heap = o.heap,
                          !.keeper[t[1]] = o.cf,
                          !.grafts = IF remove THEN @
                                     ELSE Append(@, <<t[1], t[2], st.heap[t[3]].xml>>),
                          !.prunes = IF remove
                                     THEN Append(@, <<t[1], t[2], st.heap[t[3]].xml>>)
                                     ELSE @,
                          !.log = Append(@, FragmentEvent(IF remove THEN "prune" ELSE "graft",
                                                          st.heap[t[3]], t[1], t[2], o.called))],
               Tail(todo), remove)))

\* an uninstall that generates the munge without variables
uninstallPluginNoVars(st, req) ==
    Bind(generate_plugin_config_munge(st.heap, req.plugin, NoVars), LAMBDA g :
      Bind(decrement_munge(g.heap, st.munge, g.munge), LAMBDA d :
        IF d.err THEN [st EXCEPT !.err = TRUE]
        ELSE Bind(applyFragments(
                    [st EXCEPT !.heap = d.heap, !.munge = d.base,
                               !.log = Append(@, MungeEvent("decrement", req.plugin, NoVars,
                                                          Fragments(d.heap, d.diff)))],
                    Triples(d.diff), TRUE), LAMBDA a :
          IF a.err THEN a
          ELSE [a EXCEPT !.installed = removePlugin(@, req.plugin)])))

\* step 1 of process for one entry of prepare_queue.uninstalled: the munge
\* is generated with the variables the plugin was installed with
uninstallPlugin(st, req) ==
    Bind(IF req.plugin \in DOMAIN st.installed THEN st.installed[req.plugin] ELSE NoVars,
         LAMBDA variables :
      Bind(generate_plugin_config_munge(st.heap, req.plugin, variables), LAMBDA g :
        Bind(decrement_munge(g.heap, st.munge, g.munge), LAMBDA d :
          IF d.err THEN [st EXCEPT !.err = TRUE]
          ELSE Bind(applyFragments(
                      [st EXCEPT !.heap = d.heap, !.munge = d.base,
                                 !.log = Append(@, MungeEvent("decrement", req.plugin, variables,
                                                            Fragments(d.heap, d.diff)))],
                      Triples(d.diff), TRUE), LAMBDA a :
            IF a.err THEN a
            ELSE [a EXCEPT !.installed = removePlugin(@, req.plugin)]))))

\* the increment and the grafts of an install
addChanges(st, req, g) ==
    Bind(increment_munge(g.heap, st.munge, g.munge), LAMBDA d :
      IF d.err THEN [st EXCEPT !.err = TRUE]
      ELSE Bind(applyFragments(
                  [st EXCEPT !.heap = d.heap, !.munge = d.base,
                             !.log = Append(@, MungeEvent("increment", req.plugin, req.vars,
                                                          Fragments(d.heap, d.diff)))],
                  Triples(d.diff), FALSE), LAMBDA a :
        IF a.err THEN a
        ELSE [a EXCEPT !.installed = addPlugin(@, req.plugin, req.vars)]))

\* an install whose force flag also overrides a conflict with config.xml
installPluginForceWins(st, req) ==
    Bind(generate_plugin_config_munge(st.heap, req.plugin, req.vars), LAMBDA g :
      IF conflicting(g.heap, st.munge, g.munge, req.plugin) # {} /\ ~req.force
      THEN [st EXCEPT !.err = TRUE,
                      !.error = ConflictError(req.plugin,
                                   CHOOSE o \in conflicting(g.heap, st.munge, g.munge,
                                                            req.plugin) : TRUE)]
      ELSE addChanges(st, req, g))

\* an install that checks for no conflict
installPluginUnchecked(st, req) ==
    addChanges(st, req, generate_plugin_config_munge(st.heap, req.plugin, req.vars))

\* step 2 of process for one entry of prepare_queue.installed: a conflict
\* with config.xml always fails the install, a conflict with another plugin
\* fails it unless the request has the force flag
installPlugin(st, req) ==
    Bind(generate_plugin_config_munge(st.heap, req.plugin, req.vars), LAMBDA g :
      Bind(conflicting(g.heap, st.munge, g.munge, req.plugin), LAMBDA owners :
        IF "config.xml" \in owners
        THEN [st EXCEPT !.err = TRUE, !.error = ConflictError(req.plugin, "config.xml")]
        ELSE IF owners # {} /\ ~req.force
        THEN [st EXCEPT !.err = TRUE,
                        !.error = ConflictError(req.plugin, CHOOSE o \in owners : TRUE)]
        ELSE addChanges(st, req, g)))

RECURSIVE processQueue(_, _, _)
processQueue(st, queue, remove) ==
    IF queue = <<>> \/ st.err THEN st
    ELSE processQueue(IF remove THEN uninstallPlugin(st, Head(queue))
                      ELSE installPlugin(st, Head(queue)),
                      Tail(queue), remove)

\* a pass that applies its installs before its uninstalls
processInstallsFirst(st, queue) ==
    processQueue(processQueue(st, queue.installed, FALSE), queue.uninstalled, TRUE)

\* process: all uninstalls of the pass, then all its installs
process(st, queue) ==
    processQueue(processQueue(st, queue.uninstalled, TRUE), queue.installed, FALSE)

\* the top-level app manifests (config.xml) of the model: M0 declares
\* nothing; M1 and M2 declare an <edit-config> for the same target with
\* other attribute values, and the same <config-file> child
AppManifests == {"M0", "M1", "M2"}

AppChanges(config) ==
    CASE config = "M1" ->
           << <<"AndroidManifest.xml", "/manifest", "<manifest v='3'/>", "", "merge">>,
              <<"AndroidManifest.xml", "/manifest", "<b/>", "", "">> >>
      [] config = "M2" ->
           << <<"AndroidManifest.xml", "/manifest", "<manifest v='4'/>", "", "overwrite">>,
              <<"AndroidManifest.xml", "/manifest", "<b/>", "", "">> >>
      [] OTHER -> <<>>

\* the app manifest declares the fragment
Declares(config, file, selector, xml) ==
    \E i \in 1..Len(AppChanges(config)) :
        /\ AppChanges(config)[i][1] = file
        /\ AppChanges(config)[i][2] = selector
        /\ AppChanges(config)[i][3] = xml

\* config_munge holds the fragment for the reserved owner
Applied(h, m, c) ==
    \E t \in Range(Triples(m)) :
        t[1] = c[1] /\ t[2] = c[2] /\ h[t[3]].xml = c[3] /\ h[t[3]].owner = "config.xml"

\* the stale part of the delta: a munge of the entries of the reserved
\* owner that the app manifest does not declare, with their counts
RECURSIVE staleLoop(_, _, _, _)
staleLoop(h, m, todo, config) ==
    IF todo = <<>> THEN [heap |-> h, munge |-> m]
    ELSE Bind(Head(todo), LAMBDA t :
      IF h[t[3]].owner # "config.xml" \/ Declares(config, t[1], t[2], h[t[3]].xml)
      THEN staleLoop(h, m, Tail(todo), config)
      ELSE Bind(Append(h, OwnedElement(h[t[3]].xml, h[t[3]].count, h[t[3]].after,
                                       h[t[3]].mode, "config.xml")), LAMBDA h1 :
        Bind(deep_add(h1, m, t[1], t[2], Len(h1)), LAMBDA a :
          staleLoop(a.heap, a.munge, Tail(todo), config))))

\* the new part of the delta: the declarations that are not applied yet
RECURSIVE NotApplied(_, _, _)
NotApplied(h, m, changes) ==
    IF changes = <<>> THEN <<>>
    ELSE (IF Applied(h, m, Head(changes)) THEN <<>> ELSE <<Head(changes)>>)
            \o NotApplied(h, m, Tail(changes))

generate_config_xml_munge(h, m, config) ==
    generateLoop(h, EmptyMunge, NotApplied(h, m, AppChanges(config)), NoVars, "config.xml")

\* add_config_changes(configParser, true): the stale fragments of the app
\* manifest are decremented and pruned or restored, the new ones incremented
\* and grafted
add_config_changes(st, config) ==
    Bind(staleLoop(st.heap, EmptyMunge, Triples(st.munge), config), LAMBDA old :
      Bind(decrement_munge(old.heap, st.munge, old.munge), LAMBDA d :
        IF d.err THEN [st EXCEPT !.err = TRUE]
        ELSE Bind(applyFragments(
                    [st EXCEPT !.heap = d.heap, !.munge = d.base,
                               !.log = Append(@, MungeEvent("decrement", "config.xml", NoVars,
                                                            Fragments(d.heap, d.diff)))],
                    Triples(d.diff), TRUE), LAMBDA a :
          IF a.err THEN a
          ELSE Bind(generate_config_xml_munge(a.heap, a.munge, config), LAMBDA g :
            Bind(increment_munge(g.heap, a.munge, g.munge), LAMBDA i :
              IF i.err THEN [a EXCEPT !.err = TRUE]
              ELSE applyFragments(
                     [a EXCEPT !.heap = i.heap, !.munge = i.base,
                               !.log = Append(@, MungeEvent("increment", "config.xml", NoVars,
                                                            Fragments(i.heap, i.diff)))],
                     Triples(i.diff), FALSE))))))

(***************************************************************************)
(* Munge-store specification: a caller that owns one store (base) and one  *)
(* delta munge, and calls the exported functions on them.                  *)
(***************************************************************************)
VARIABLES heap, base, delta, diff, last, made,
          config_keeper, installed_plugins, prepare_queue, pass, original, plugins_dir

vars == <<heap, base, delta, diff, last, made,
          config_keeper, installed_plugins, prepare_queue, pass, original, plugins_dir>>

\* the state of the Platform Munger, which the callers of the munge store
\* leave alone
procVars == <<config_keeper, installed_plugins, prepare_queue, pass, original, plugins_dir>>

\* the munge with every reference replaced by the object it points to
Deref(h, m) ==
    [hasFiles |-> m.hasFiles,
     files |-> [f \in DOMAIN m.files |->
        [parents |-> [s \in DOMAIN m.files[f].parents |->
            [i \in 1..Len(m.files[f].parents[s]) |-> h[m.files[f].parents[s][i]]]]]]]

\* the references a munge holds, in iteration order
Refs(m) == LET t == Triples(m) IN [i \in 1..Len(t) |-> t[i][3]]

MapRefs(m, pos) ==
    [hasFiles |-> m.hasFiles,
     files |-> [f \in DOMAIN m.files |->
        [parents |-> [s \in DOMAIN m.files[f].parents |->
            [i \in 1..Len(m.files[f].parents[s]) |-> pos[m.files[f].parents[s][i]]]]]]]

\* Objects no munge refers to are garbage; the live ones are renumbered in
\* the order base, delta, diff reach them, so that equal object graphs are
\* equal states.
Collect(h, b, d, df) ==
    LET order == Dedup(Refs(b) \o Refs(d) \o Refs(df))
        pos == [r \in Range(order) |-> CHOOSE i \in 1..Len(order) : order[i] = r]
    IN [heap |-> [i \in 1..Len(order) |-> h[order[i]]],
        base |-> MapRefs(b, pos), delta |-> MapRefs(d, pos), diff |-> MapRefs(df, pos)]

Store(h, b, d, df) ==
    LET c == Collect(h, b, d, df)
    IN /\ heap' = c.heap
       /\ base' = c.base
       /\ delta' = c.delta
       /\ diff' = c.diff

\* xml of the entries of one list of a dereferenced munge
ViewList(v, f, s) ==
    IF v.hasFiles /\ f \in DOMAIN v.files /\ s \in DOMAIN v.files[f].parents
    THEN v.files[f].parents[s] ELSE <<>>

ViewHas(v, f, s, xml) == \E i \in 1..Len(ViewList(v, f, s)) : ViewList(v, f, s)[i].xml = xml

\* the first entry with that xml (the one find / findIndex return)
ViewEntry(v, f, s, xml) ==
    LET l == ViewList(v, f, s)
    IN l[Min({i \in 1..Len(l) : l[i].xml = xml})]

\* the (file, selector, xml) triples that have an entry
ViewTriples(v) ==
    {t \in Files \X Selectors \X Xmls : ViewHas(v, t[1], t[2], t[3])}

\* the record of the last call: its arguments, its result, and the store
\* and the delta as they were when it was made
Call(op, f, s, xml, cnt, ret, err) ==
    [op |-> op, f |-> f, s |-> s, xml |-> xml, cnt |-> cnt, ret |-> ret, err |-> err,
     pre |-> Deref(heap, base), preDelta |-> Deref(heap, delta)]

NoCall == [op |-> "none", f |-> "", s |-> "", xml |-> "", cnt |-> 0, ret |-> FALSE,
           err |-> FALSE, pre |-> Deref(<<>>, EmptyMunge), preDelta |-> Deref(<<>>, EmptyMunge)]

\* the record of the last process pass: the plugins of its queues and the
\* queues themselves, its graft and prune calls, what it did in order,
\* config_munge and installed_plugins as they were before the pass, and
\* the files save_all wrote
NoPass == [op |-> "none", config |-> "", installed |-> <<>>, uninstalled |-> <<>>, grafts |-> <<>>, prunes |-> <<>>,
           pre |-> Deref(<<>>, EmptyMunge), err |-> FALSE,
           queue |-> EmptyQueue, log |-> <<>>, preInstalled |-> NoPlugins,
           error |-> NoError, preKeeper |-> Handles(NoData),
           preHeap |-> <<>>, preMunge |-> EmptyMunge, written |-> <<>>]

MungeInit ==
    /\ heap = <<>>
    /\ base = EmptyMunge
    /\ delta = EmptyMunge
    /\ diff = EmptyMunge
    /\ last = NoCall
    /\ made = 0
    /\ original = Node("manifest", NoAttrib, "", <<>>)
    /\ config_keeper = Handles(original)
    /\ installed_plugins = NoPlugins
    /\ prepare_queue = EmptyQueue
    /\ pass = NoPass
    /\ plugins_dir = {}

\* the stored counts stay within the cap
Capped(h, m) == \A r \in Range(Refs(m)) : h[r].count <= MaxCount

\* the caller's delta descriptions: up to MaxElems distinct triples with counts
DeltaSeqs ==
    {q \in UNION {[1..n -> MTriples \X (1..MaxCount)] : n \in 0..MaxElems} :
        \A i, j \in 1..Len(q) : i # j => q[i][1] # q[j][1]}

\* a delta munge is built the way generate_plugin_config_munge builds one:
\* one fresh element object per child, deep_add'ed into an empty munge
RECURSIVE BuildMunge(_, _, _)
BuildMunge(h, m, q) ==
    IF q = <<>> THEN [heap |-> h, munge |-> m]
    ELSE LET t == Head(q)[1]
             h1 == Append(h, Element(t[3], Head(q)[2], "", ""))
             a == deep_add(h1, m, t[1], t[2], Len(h1))
         IN BuildMunge(a.heap, a.munge, Tail(q))

\* the caller drops its delta and builds a new one
NewDelta ==
    /\ made < MaxDeltas
    /\ \E q \in DeltaSeqs :
      \E b \in {BuildMunge(heap, EmptyMunge, q)} :
           /\ Store(b.heap, base, b.munge, EmptyMunge)
           /\ last' = [NoCall EXCEPT !.op = "new_delta"]
    /\ made' = made + 1
    /\ UNCHANGED procVars

\* mungeutil.deep_add(base, file, selector, { xml, count, after }) by a
\* caller that holds no delta
DeepAdd ==
    \E t \in MTriples, c \in 1..MaxCount :
      \E a \in AftersOf(t[3]) :
        LET h1 == Append(heap, Element(t[3], c, a, ""))
            o == deep_add(h1, base, t[1], t[2], Len(h1))
        IN /\ Capped(o.heap, o.munge)
           /\ Store(o.heap, o.munge, EmptyMunge, EmptyMunge)
           /\ last' = Call("deep_add", t[1], t[2], t[3], c, o.ret, o.err)
           /\ UNCHANGED <<made, procVars>>

\* mungeutil.deep_remove(base, file, selector, { xml, count })
DeepRemove ==
    \E t \in RTriples, c \in 1..MaxCount :
        LET h1 == Append(heap, Element(t[3], c, "", ""))
            o == deep_remove(h1, base, t[1], t[2], Len(h1))
        IN /\ Store(o.heap, o.munge, EmptyMunge, EmptyMunge)
           /\ last' = Call("deep_remove", t[1], t[2], t[3], c, o.ret, o.err)
           /\ UNCHANGED <<made, procVars>>

\* diff = mungeutil.increment_munge(base, delta)
Increment ==
    \E o \in {increment_munge(heap, base, delta)} :
       /\ Capped(o.heap, o.base)
       /\ Store(o.heap, o.base, delta, o.diff)
       /\ last' = Call("increment_munge", "", "", "", 0, FALSE, o.err)
       /\ UNCHANGED <<made, procVars>>

\* diff = mungeutil.decrement_munge(base, delta)
Decrement ==
    \E o \in {decrement_munge(heap, base, delta)} :
       /\ Store(o.heap, o.base, delta, o.diff)
       /\ last' = Call("decrement_munge", "", "", "", 0, FALSE, o.err)
       /\ UNCHANGED <<made, procVars>>

\* increment_munge(base, delta) followed by decrement_munge(base, delta)
RoundTrip ==
    \E i \in {increment_munge(heap, base, delta)} :
      \E o \in {decrement_munge(i.heap, i.base, delta)} :
       /\ Capped(i.heap, i.base)
       /\ Store(o.heap, o.base, delta, o.diff)
       /\ last' = Call("round_trip", "", "", "", 0, FALSE, i.err \/ o.err)
       /\ UNCHANGED <<made, procVars>>

\* diff = mungeutil.clone_munge(base): the value increment_munge returns,
\* nothing when it throws
CloneMunge ==
    \E o \in {clone_munge(heap, base)} :
       /\ Store(o.heap, base, delta, IF o.err THEN EmptyMunge ELSE o.diff)
       /\ last' = Call("clone_munge", "", "", "", 0, FALSE, o.err)
       /\ UNCHANGED <<made, procVars>>

\* the caller of deep_add and deep_remove
DeepNext ==
    \/ DeepAdd
    \/ DeepRemove

SpecDeep == MungeInit /\ [][DeepNext]_vars

\* the caller of increment_munge, decrement_munge and clone_munge
MungeNext ==
    \/ NewDelta
    \/ Increment
    \/ Decrement
    \/ RoundTrip
    \/ CloneMunge

SpecMunge == MungeInit /\ [][MungeNext]_vars

(***************************************************************************)
(* Properties of the munge store.                                          *)
(***************************************************************************)
\* the store as the last call left it
Post == Deref(heap, base)

PreList == ViewList(last.pre, last.f, last.s)
PostList == ViewList(Post, last.f, last.s)
PreHad == ViewHas(last.pre, last.f, last.s, last.xml)
\* index of the entry find() returns in the list before the call
PreIndex == Min({i \in 1..Len(PreList) : PreList[i].xml = last.xml})

OtherListsKept ==
    \A k \in Files \X Selectors :
        k # <<last.f, last.s>> => ViewList(Post, k[1], k[2]) = ViewList(last.pre, k[1], k[2])

C5_DeepRemoveResult ==
    (last.op = "deep_remove" /\ PreHad) =>
        LET n == PreList[PreIndex].count - last.cnt
        IN /\ ~last.err
           /\ last.ret = ~(n > 0)
           /\ OtherListsKept
           /\ n > 0 =>
                 /\ Len(PostList) = Len(PreList)
                 /\ \A i \in 1..Len(PreList) :
                       /\ PostList[i].xml = PreList[i].xml
                       /\ PostList[i].count = IF i = PreIndex THEN n ELSE PreList[i].count
           /\ ~(n > 0) =>
                 /\ PostList = RemoveAt(PreList, PreIndex)
                 /\ ~ViewHas(Post, last.f, last.s, last.xml)
           /\ \A i \in 1..Len(PostList) : PostList[i].count > 0

\* a deep_remove that brought an entry to exactly 0 and removed it
C5_Witness ==
    /\ last.op = "deep_remove"
    /\ PreHad
    /\ PreList[PreIndex].count = last.cnt
    /\ last.ret
    /\ Len(PreList) = 2

\* C6: deep_remove of a fragment that has no entry returns true and leaves
\* the munge as it was: no count changes, no file or selector key is created.
C6_DeepRemoveAbsent ==
    (last.op = "deep_remove" /\ ~PreHad) =>
        /\ ~last.err
        /\ last.ret
        /\ Post = last.pre

\* a deep_remove at a selector the file's entry does not have
C6_Witness ==
    /\ last.op = "deep_remove"
    /\ ~PreHad
    /\ last.f \in DOMAIN last.pre.files
    /\ last.s \notin DOMAIN last.pre.files[last.f].parents
    /\ last.ret

\* the fragments of the delta, of the store before the call, of the diff
DeltaT == ViewTriples(last.preDelta)
BaseT == ViewTriples(last.pre)
DiffT == ViewTriples(Deref(heap, diff))

CountIn(v, t) == ViewEntry(v, t[1], t[2], t[3]).count

\* C7: increment_munge adds every fragment of delta to base (a new entry, or
\* the delta's count added to the existing one) and returns exactly the
\* fragments of delta that had no entry in base before the call.
C7_IncrementDiff ==
    last.op = "increment_munge" =>
        /\ ~last.err
        /\ DiffT = DeltaT \ BaseT
        /\ \A t \in DeltaT :
              /\ ViewHas(Post, t[1], t[2], t[3])
              /\ CountIn(Post, t) =
                    (IF t \in BaseT THEN CountIn(last.pre, t) ELSE 0)
                        + CountIn(last.preDelta, t)
        /\ \A t \in BaseT \ DeltaT :
              ViewHas(Post, t[1], t[2], t[3]) /\ CountIn(Post, t) = CountIn(last.pre, t)

\* an increment whose delta has a fragment base had and one it had not
C7_Witness ==
    /\ last.op = "increment_munge"
    /\ DeltaT \cap BaseT # {}
    /\ DeltaT \ BaseT # {}
    /\ DiffT # {}

\* the fragments of delta whose entry in base this decrement brought to 0
\* or less
ReachedZero == {t \in DeltaT \cap BaseT : CountIn(last.pre, t) - CountIn(last.preDelta, t) <= 0}

C9_RoundTripRestores ==
    last.op = "round_trip" =>
        /\ ~last.err
        /\ ViewTriples(Post) = BaseT
        /\ \A t \in BaseT : CountIn(Post, t) = CountIn(last.pre, t)

\* C10 as stated: clone_munge(M) returns a munge with the files, selectors,
\* fragments and counts of M.
C10_CloneEqual ==
    last.op = "clone_munge" =>
        /\ ~last.err
        /\ Deref(heap, diff) = last.pre

(***************************************************************************)
(* Platform Munger specification: plugins are queued for install and       *)
(* uninstall, and process passes drain the queues.  base is the persisted  *)
(* config_munge.                                                           *)
(***************************************************************************)
ProcStart(originals, dir) ==
    /\ heap = <<>>
    /\ base = EmptyMunge
    /\ delta = EmptyMunge
    /\ diff = EmptyMunge
    /\ last = NoCall
    /\ made = 0
    /\ original \in originals
    /\ config_keeper = Handles(original)
    /\ installed_plugins = NoPlugins
    /\ prepare_queue = EmptyQueue
    /\ pass = NoPass
    /\ plugins_dir = dir

ProcInit == ProcStart(Originals, PluginIds)

QueueLen == Len(prepare_queue.installed) + Len(prepare_queue.uninstalled)

\* PlatformJson.addInstalledPluginToPrepareQueue(plugin, vars, topLevel, force):
\* a plugin that is not installed, or one whose uninstall is queued for the
\* same pass
addInstalledPluginToPrepareQueue ==
    /\ QueueLen < MaxQueue
    /\ \E p \in plugins_dir :
        /\ p \notin Range(QueuedPlugins(prepare_queue.installed))
        /\ p \in DOMAIN installed_plugins => p \in Range(QueuedPlugins(prepare_queue.uninstalled))
        /\ \E variables \in VarsOf(p), force \in ForceOf(p) :
             prepare_queue' = [prepare_queue EXCEPT
                                 !.installed = Append(@, InstallRequest(p, variables, force))]
    /\ UNCHANGED <<heap, base, delta, diff, last, made, config_keeper, installed_plugins,
                   pass, original, plugins_dir>>

\* PlatformJson.addUninstalledPluginToPrepareQueue(plugin): an installed plugin
addUninstalledPluginToPrepareQueue ==
    /\ QueueLen < MaxQueue
    /\ \E p \in DOMAIN installed_plugins :
        /\ p \notin Range(QueuedPlugins(prepare_queue.uninstalled))
        /\ p \notin Range(QueuedPlugins(prepare_queue.installed))
        /\ prepare_queue' = [prepare_queue EXCEPT !.uninstalled = Append(@, UninstallRequest(p))]
    /\ UNCHANGED <<heap, base, delta, diff, last, made, config_keeper, installed_plugins,
                   pass, original, plugins_dir>>

\* what a pass of process or a call of add_config_changes leaves in the
\* record of the last pass
PassRecordOf(op, config, st) ==
    [op |-> op, config |-> config,
     installed |-> QueuedPlugins(prepare_queue.installed),
     uninstalled |-> QueuedPlugins(prepare_queue.uninstalled),
     grafts |-> st.grafts, prunes |-> st.prunes,
     pre |-> Deref(heap, base), err |-> st.err,
     queue |-> prepare_queue, log |-> st.log, preInstalled |-> installed_plugins,
     error |-> st.error, preKeeper |-> config_keeper,
     preHeap |-> heap, preMunge |-> base, written |-> <<>>]

PassRecord(st) == PassRecordOf("process", "", st)

\* PlatformMunger.process: one pass.  An error aborts the pass and nothing
\* of it is kept.
Process ==
    /\ \E st \in {process(PassState(heap, base, config_keeper, installed_plugins),
                          prepare_queue)} :
         IF st.err
         THEN /\ pass' = PassRecord(st)
              /\ UNCHANGED <<heap, base, delta, diff, config_keeper, installed_plugins,
                             prepare_queue>>
         ELSE /\ Store(st.heap, st.munge, EmptyMunge, EmptyMunge)
              /\ config_keeper' = st.keeper
              /\ installed_plugins' = st.installed
              /\ prepare_queue' = EmptyQueue
              /\ pass' = PassRecord(st)
    /\ UNCHANGED <<last, made, original, plugins_dir>>

ProcNext ==
    \/ addInstalledPluginToPrepareQueue
    \/ addUninstalledPluginToPrepareQueue
    \/ Process

SpecProc == ProcInit /\ [][ProcNext]_vars

(***************************************************************************)
(* Properties of the Platform Munger.                                      *)
(***************************************************************************)
\* the fragment plugins A and B both declare
Shared == <<"AndroidManifest.xml", "/manifest", "<a/>">>

\* count of a fragment in a dereferenced munge, 0 without an entry
CountOr0(v, t) == IF ViewHas(v, t[1], t[2], t[3]) THEN CountIn(v, t) ELSE 0

\* number of entries a fragment has in its list
Entries(v, t) ==
    Cardinality({i \in 1..Len(ViewList(v, t[1], t[2])) : ViewList(v, t[1], t[2])[i].xml = t[3]})

\* graft and prune calls of the last pass for a fragment
GraftsOf(t) == Cardinality({i \in 1..Len(pass.grafts) : pass.grafts[i] = t})
PrunesOf(t) == Cardinality({i \in 1..Len(pass.prunes) : pass.prunes[i] = t})

\* the files as they are when only the plugins of q are installed, in the
\* order of q, on the original files
InstalledAlone(q) ==
    process(PassState(<<>>, EmptyMunge, Handles(original), NoPlugins),
            [installed |-> [i \in 1..Len(q) |-> InstallRequest(q[i], NoVars, FALSE)],
             uninstalled |-> <<>>]).keeper

\* the orders in which the plugins of S can be installed
Orders(S) ==
    IF S = {} THEN {<<>>}
    ELSE {q \in [1..Cardinality(S) -> S] : \A i, j \in 1..Cardinality(S) : i # j => q[i] # q[j]}

\* C1 as stated: after plugins were installed and some of them uninstalled,
\* every config file is identical to the file obtained by installing only
\* the remaining plugins (in some order) on the original file.
C1_UninstallLeavesRemaining ==
    \E q \in Orders(DOMAIN installed_plugins) :
        \A f \in Files : config_keeper[f].data = InstalledAlone(q)[f].data

\* C2: with two plugins that declare the identical fragment at the identical
\* (file, selector): the install that finds no entry causes exactly one graft
\* and count 1, the install that finds count 1 causes no graft and count 2;
\* the uninstall that finds count 2 leaves count 1 and causes no prune, the
\* uninstall that finds count 1 removes the entry and causes exactly one prune.
C2_SharedFragmentRefCount ==
    /\ \A p \in {"A", "B"} :
        (~pass.err /\ pass.installed = <<p>> /\ pass.uninstalled = <<>>) =>
            /\ CountOr0(pass.pre, Shared) = 0 =>
                  GraftsOf(Shared) = 1 /\ CountOr0(Post, Shared) = 1
            /\ CountOr0(pass.pre, Shared) = 1 =>
                  GraftsOf(Shared) = 0 /\ CountOr0(Post, Shared) = 2
    /\ \A p \in {"A", "B"} :
        (~pass.err /\ pass.uninstalled = <<p>> /\ pass.installed = <<>>) =>
            /\ CountOr0(pass.pre, Shared) = 2 =>
                  PrunesOf(Shared) = 0 /\ CountOr0(Post, Shared) = 1
            /\ CountOr0(pass.pre, Shared) = 1 =>
                  PrunesOf(Shared) = 1 /\ Entries(Post, Shared) = 0

\* both plugins were installed and one of them has been uninstalled
C2_Witness ==
    /\ pass.uninstalled = <<"A">>
    /\ pass.installed = <<>>
    /\ CountOr0(pass.pre, Shared) = 2
    /\ CountOr0(Post, Shared) = 1
    /\ PrunesOf(Shared) = 0
    /\ DOMAIN installed_plugins = {"B"}

\* number of times the installed plugins declare a fragment
Contributions(t) ==
    Cardinality({c \in (DOMAIN installed_plugins) \X (1..2) :
                    /\ c[2] <= Len(ConfigChanges(c[1]))
                    /\ <<ConfigChanges(c[1])[c[2]][1], ConfigChanges(c[1])[c[2]][2],
                         ConfigChanges(c[1])[c[2]][3]>> = t})

VarsInit == ProcStart(Originals, VarPluginIds)

SpecVars == VarsInit /\ [][ProcNext]_vars

\* the plugins of the uninstall queue that are not in the install queue
OnlyUninstalled(queue) ==
    {queue.uninstalled[i].plugin : i \in 1..Len(queue.uninstalled)}
        \ {queue.installed[i].plugin : i \in 1..Len(queue.installed)}

\* C11: a process pass that completes leaves both queues empty, every plugin
\* that was queued for install in installed_plugins with the variables it
\* was queued with, and every plugin that was queued only for uninstall
\* absent from installed_plugins.
C11_ProcessDrainsQueues ==
    [][(Process /\ ~pass'.err) =>
          /\ prepare_queue'.installed = <<>>
          /\ prepare_queue'.uninstalled = <<>>
          /\ \A i \in 1..Len(prepare_queue.installed) :
                /\ prepare_queue.installed[i].plugin \in DOMAIN installed_plugins'
                /\ installed_plugins'[prepare_queue.installed[i].plugin]
                      = prepare_queue.installed[i].vars
          /\ \A p \in OnlyUninstalled(prepare_queue) : p \notin DOMAIN installed_plugins']_vars

\* a pass has uninstalled A and installed V with API_KEY = "yo"
C11_Witness ==
    /\ ~pass.err
    /\ QueuedPlugins(pass.queue.uninstalled) = <<"A">>
    /\ pass.queue.installed = <<InstallRequest("V", ApiKey("yo"), FALSE)>>
    /\ "A" \in DOMAIN pass.preInstalled
    /\ prepare_queue = EmptyQueue
    /\ DOMAIN installed_plugins = {"V"}
    /\ installed_plugins["V"] = ApiKey("yo")

\* positions of the log of the last pass that belong to an uninstall and to
\* an install
UninstallSteps == {i \in 1..Len(pass.log) : pass.log[i].op \in {"decrement", "prune"}}
InstallSteps == {i \in 1..Len(pass.log) : pass.log[i].op \in {"increment", "graft"}}

\* the plugins that were in both queues of the last pass
QueuedForBoth ==
    {r \in Range(pass.queue.installed) :
        r.plugin \in Range(QueuedPlugins(pass.queue.uninstalled))}

\* C12: within one pass every decrement and prune for the plugins queued for
\* uninstall comes before any increment or graft for the plugins queued for
\* install, and a plugin queued for both is decremented with the variables
\* it was installed with before it is incremented with the variables of its
\* install request.
C12_UninstallsBeforeInstalls ==
    /\ \A i \in UninstallSteps, j \in InstallSteps : i < j
    /\ ~pass.err =>
        \A r \in QueuedForBoth :
            \E i \in UninstallSteps, j \in InstallSteps :
                /\ i < j
                /\ pass.log[i].op = "decrement"
                /\ pass.log[i].plugin = r.plugin
                /\ pass.log[i].vars = pass.preInstalled[r.plugin]
                /\ pass.log[j].op = "increment"
                /\ pass.log[j].plugin = r.plugin
                /\ pass.log[j].vars = r.vars

\* V was installed with API_KEY = "hi" and one pass has uninstalled it and
\* installed it with API_KEY = "yo": the old fragment was pruned before the
\* new one was grafted
C12_Witness ==
    /\ ~pass.err
    /\ Len(pass.log) = 4
    /\ pass.log[1].op = "decrement" /\ pass.log[1].vars = ApiKey("hi")
    /\ pass.log[2].op = "prune" /\ pass.log[2].xml = "<key>hi</key>"
    /\ pass.log[3].op = "increment" /\ pass.log[3].vars = ApiKey("yo")
    /\ pass.log[4].op = "graft" /\ pass.log[4].xml = "<key>yo</key>"
    /\ installed_plugins["V"] = ApiKey("yo")

(***************************************************************************)
(* Platform Munger with <edit-config> plugins: the plugins directory holds *)
(* E1, E2 and R, and E2 can be queued with the force flag.                 *)
(***************************************************************************)
EditInit == ProcStart(EditOriginals, EditPluginIds)

SpecEdit == EditInit /\ [][ProcNext]_vars

\* the positions of the log of the last pass that follow the increment or
\* decrement at position i, up to the next one: the primitive calls made
\* for the Munge it returned
CallsAfter(i) ==
    {j \in (i + 1)..Len(pass.log) :
        \A k \in (i + 1)..j : pass.log[k].op \in {"graft", "prune"}}

\* the primitive that fits a fragment's mode
Matching(op, mode) ==
    IF op = "increment"
    THEN (CASE mode = "merge" -> "graftXMLMerge"
            [] mode = "overwrite" -> "graftXMLOverwrite"
            [] mode = "remove" -> "pruneXMLRemove"
            [] OTHER -> "graftXML")
    ELSE (CASE mode \in {"merge", "overwrite"} -> "pruneXMLRestore"
            [] mode = "remove" -> "pruneXMLRemove"
            [] OTHER -> "pruneXML")

\* the calls after position i are one call per fragment of want, in order,
\* each of the primitive that fits the fragment's mode
OneCallEach(i, want) ==
    /\ Cardinality(CallsAfter(i)) = Len(want)
    /\ \A k \in 1..Len(want) :
          /\ i + k \in CallsAfter(i)
          /\ pass.log[i + k].file = want[k].file
          /\ pass.log[i + k].selector = want[k].selector
          /\ pass.log[i + k].xml = want[k].xml
          /\ pass.log[i + k].called = Matching(pass.log[i].op, want[k].mode)

\* the subsequence of the fragments whose target Config File exists
RECURSIVE OnExisting(_)
OnExisting(fragments) ==
    IF fragments = <<>> THEN <<>>
    ELSE IF pass.preKeeper[Head(fragments).file].exists
         THEN <<Head(fragments)>> \o OnExisting(Tail(fragments))
         ELSE OnExisting(Tail(fragments))

MungeSteps == {i \in 1..Len(pass.log) : pass.log[i].op \in {"increment", "decrement"}}

SkippedFragments ==
    {c \in {<<i, k>> : i \in MungeSteps, k \in 1..MaxElems} :
        /\ c[2] <= Len(pass.log[c[1]].returned)
        /\ ~pass.preKeeper[pass.log[c[1]].returned[c[2]].file].exists}

\* C14: a fragment whose target Config File does not exist is skipped for
\* graft and for prune: the pass raises no error, no primitive is called on
\* the missing file and its handle stays without data and clean, and every
\* returned fragment of the pass whose file exists gets its primitive call.
C14_MissingFileSkipped ==
    /\ SkippedFragments # {} => ~pass.err
    /\ \A i \in 1..Len(pass.log) :
          pass.log[i].op \in {"graft", "prune"} => pass.preKeeper[pass.log[i].file].exists
    /\ \A f \in Files :
          ~config_keeper[f].exists => config_keeper[f] = ConfigFile(f, FALSE, NoData)
    /\ ~pass.err => \A i \in MungeSteps : OneCallEach(i, OnExisting(pass.log[i].returned))

\* one pass has installed C, one of whose fragments is for the missing
\* config.xml, and then A, whose fragment was grafted after the skip
C14_Witness ==
    /\ ~pass.err
    /\ pass.installed = <<"C", "A">>
    /\ Len(pass.log) = 4
    /\ Len(pass.log[1].returned) = 2
    /\ pass.log[1].returned[2].file = "config.xml"
    /\ ~config_keeper["config.xml"].exists
    /\ pass.log[2].op = "graft" /\ pass.log[2].xml = "<b/>"
    /\ pass.log[3].op = "increment" /\ pass.log[3].plugin = "A"
    /\ pass.log[4].op = "graft" /\ pass.log[4].xml = "<a/>"
    /\ config_keeper["AndroidManifest.xml"].is_changed

\* the targets of the merge / overwrite <edit-config> children a plugin
\* declares, with the attribute values they set
EditConfigs(p) ==
    {<<ConfigChanges(p)[i][1], ConfigChanges(p)[i][2], Parse(ConfigChanges(p)[i][3]).attrib>> :
        i \in {k \in 1..Len(ConfigChanges(p)) : ConfigChanges(p)[k][5] \in {"merge", "overwrite"}}}

\* two plugins have edit-configs for the same target with other attribute values
Conflicts(p, q) ==
    /\ p # q
    /\ \E a \in EditConfigs(p), b \in EditConfigs(q) :
          a[1] = b[1] /\ a[2] = b[2] /\ a[3] # b[3]

\* the plugins whose changes are applied when the last pass comes to the
\* i-th request of its install queue
Holders(i) ==
    (DOMAIN pass.preInstalled \ Range(QueuedPlugins(pass.queue.uninstalled)))
        \cup {pass.queue.installed[k].plugin : k \in 1..(i - 1)}

\* the plugins the i-th install request of the last pass conflicts with
ConflictsAt(i) == {q \in Holders(i) : Conflicts(pass.queue.installed[i].plugin, q)}

\* C15: when a pass comes to an install request without the force flag for
\* a plugin with a merge or overwrite edit-config on a target that an
\* installed plugin's conflicting edit-config has modified, the pass fails
\* with an error that names the plugin and the conflicting plugin, and the
\* pass does not record the plugin in installed_plugins (the failed pass
\* changes nothing of installed_plugins).
C15_ConflictRefused ==
    \A i \in 1..Len(pass.queue.installed) :
        (/\ ~pass.queue.installed[i].force
         /\ ConflictsAt(i) # {}
         /\ \A k \in 1..(i - 1) : pass.queue.installed[k].force \/ ConflictsAt(k) = {})
        => /\ pass.err
           /\ pass.error.kind = "conflict"
           /\ pass.error.plugin = pass.queue.installed[i].plugin
           /\ pass.error.conflicting \in ConflictsAt(i)
           /\ pass.queue.installed[i].plugin \notin DOMAIN pass.preInstalled
                 => pass.queue.installed[i].plugin \notin DOMAIN installed_plugins
           /\ installed_plugins = pass.preInstalled

\* E1 is installed and a pass with an install request for E2 without the
\* force flag has failed
C15_Witness ==
    /\ pass.queue.installed = <<InstallRequest("E2", NoVars, FALSE)>>
    /\ "E1" \in DOMAIN pass.preInstalled
    /\ pass.err
    /\ pass.error = ConflictError("E2", "E1")
    /\ DOMAIN installed_plugins = {"E1"}

\* the attributes of the node a selector addresses
TargetAttrib(doc, selector) == NodeAt(uberRoot(doc), resolveParent(doc, selector)).attrib

\* the last pass without the last request of its install queue
BeforeLastInstall ==
    process(PassState(pass.preHeap, pass.preMunge, pass.preKeeper, pass.preInstalled),
            [uninstalled |-> pass.queue.uninstalled,
             installed |-> SubSeq(pass.queue.installed, 1, Len(pass.queue.installed) - 1)])

\* a pass that uninstalls plugin p now
UninstallNow(p) ==
    process(PassState(heap, base, config_keeper, installed_plugins),
            [uninstalled |-> <<UninstallRequest(p)>>, installed |-> <<>>])

\* the attributes a merge or an overwrite of the attributes new leaves
Grafted(old, new, mode) ==
    [k \in (IF mode = "overwrite" THEN {} ELSE DOMAIN old) \cup DOMAIN new |->
        IF k \in DOMAIN new THEN new[k] ELSE old[k]]

\* the last install request of the last pass has the force flag and
\* conflicts with an applied plugin, and the pass got to it
ForcedLast ==
    /\ pass.queue.installed # <<>>
    /\ pass.queue.installed[Len(pass.queue.installed)].force
    /\ ConflictsAt(Len(pass.queue.installed)) # {}
    /\ \A k \in 1..(Len(pass.queue.installed) - 1) :
          pass.queue.installed[k].force \/ ConflictsAt(k) = {}

\* the merge / overwrite fragments of plugin p whose file exists
EditFragments(p) ==
    {ConfigChanges(p)[i] : i \in {k \in 1..Len(ConfigChanges(p)) :
        /\ ConfigChanges(p)[k][5] \in {"merge", "overwrite"}
        /\ config_keeper[ConfigChanges(p)[k][1]].exists}}

\* C16: an install request with the force flag for a plugin whose merge /
\* overwrite edit-config conflicts with an applied plugin is not refused:
\* the pass completes and records the plugin, its fragments are grafted over
\* the attributes the target had, those attributes are kept in oldAttrib of
\* the fragment's entry in config_munge, and uninstalling the forced plugin
\* restores the files to what they were before it was installed.
C16_ForceOverwrites ==
    ForcedLast =>
        /\ ~pass.err
        /\ pass.queue.installed[Len(pass.queue.installed)].plugin \in DOMAIN installed_plugins
        /\ \A c \in EditFragments(pass.queue.installed[Len(pass.queue.installed)].plugin) :
              /\ TargetAttrib(config_keeper[c[1]].data, c[2])
                    = Grafted(TargetAttrib(BeforeLastInstall.keeper[c[1]].data, c[2]),
                              Parse(c[3]).attrib, c[5])
              /\ ViewEntry(Post, c[1], c[2], c[3]).hasOld
              /\ ViewEntry(Post, c[1], c[2], c[3]).oldAttrib
                    = TargetAttrib(BeforeLastInstall.keeper[c[1]].data, c[2])
        /\ ~UninstallNow(pass.queue.installed[Len(pass.queue.installed)].plugin).err
        /\ \A f \in Files :
              UninstallNow(pass.queue.installed[Len(pass.queue.installed)].plugin).keeper[f].data
                 = BeforeLastInstall.keeper[f].data

\* E1 had merged v = 1 into /manifest, and a pass has installed E2 with the
\* force flag: v is 2 and the entry of E2 keeps v = 1 in oldAttrib
C16_Witness ==
    /\ pass.queue.installed = <<InstallRequest("E2", NoVars, TRUE)>>
    /\ "E1" \in DOMAIN pass.preInstalled
    /\ ~pass.err
    /\ TargetAttrib(pass.preKeeper["AndroidManifest.xml"].data, "/manifest")["v"] = "1"
    /\ TargetAttrib(config_keeper["AndroidManifest.xml"].data, "/manifest") = ("v" :> "2")
    /\ ViewEntry(Post, "AndroidManifest.xml", "/manifest", "<manifest v='2'/>").oldAttrib["v"] = "1"
    /\ DOMAIN installed_plugins = {"E1", "E2"}

(***************************************************************************)
(* Platform Munger with an app manifest: add_config_changes applies one of *)
(* the app manifests, and E2 is queued with or without the force flag.     *)
(***************************************************************************)
AppInit == ProcStart(AppOriginals, AppPluginIds)

\* PlatformMunger.add_config_changes(config, true)
AddConfigChanges ==
    /\ \E config \in AppManifests :
         \E st \in {add_config_changes(PassState(heap, base, config_keeper, installed_plugins),
                                       config)} :
           /\ pass' = PassRecordOf("add_config_changes", config, st)
           /\ IF st.err
              THEN UNCHANGED <<heap, base, delta, diff, config_keeper>>
              ELSE /\ Store(st.heap, st.munge, EmptyMunge, EmptyMunge)
                   /\ config_keeper' = st.keeper
    /\ UNCHANGED <<last, made, original, plugins_dir, installed_plugins, prepare_queue>>

AppNext ==
    \/ addInstalledPluginToPrepareQueue
    \/ addUninstalledPluginToPrepareQueue
    \/ Process
    \/ AddConfigChanges

SpecApp == AppInit /\ [][AppNext]_vars

\* the first install request of the last pass is for a plugin with a merge /
\* overwrite edit-config on a target for which config_munge held an
\* edit-config of config.xml with other attribute values
ConfigXmlConflict ==
    /\ pass.op = "process"
    /\ pass.queue.installed # <<>>
    /\ \E c \in EditConfigs(pass.queue.installed[1].plugin) :
         \E i \in 1..Len(ViewList(pass.pre, c[1], c[2])) :
            /\ ViewList(pass.pre, c[1], c[2])[i].owner = "config.xml"
            /\ ViewList(pass.pre, c[1], c[2])[i].mode \in {"merge", "overwrite"}
            /\ Parse(ViewList(pass.pre, c[1], c[2])[i].xml).attrib # c[3]

\* C17: a plugin whose edit-config conflicts with an edit-config applied
\* from the app manifest is not added, with or without the force flag: the
\* pass fails with an error that names the plugin and config.xml, and the
\* pass does not record the plugin (installed_plugins stays as it was).
C17_ConfigXmlConflictRefused ==
    ConfigXmlConflict =>
        /\ pass.err
        /\ pass.error = ConflictError(pass.queue.installed[1].plugin, "config.xml")
        /\ installed_plugins = pass.preInstalled
        /\ pass.queue.installed[1].plugin \notin DOMAIN pass.preInstalled
              => pass.queue.installed[1].plugin \notin DOMAIN installed_plugins

\* M1 is applied and a pass with an install request for E2 with the force
\* flag has failed
C17_Witness ==
    /\ pass.op = "process"
    /\ pass.queue.installed = <<InstallRequest("E2", NoVars, TRUE)>>
    /\ ViewHas(pass.pre, "AndroidManifest.xml", "/manifest", "<manifest v='3'/>")
    /\ pass.err
    /\ pass.error = ConflictError("E2", "config.xml")
    /\ "E2" \notin DOMAIN installed_plugins

\* the entries config_munge holds for the reserved owner
OwnedEntries(h, m) ==
    {<<t[1], t[2], h[t[3]].xml, h[t[3]].mode, h[t[3]].count>> :
        t \in {u \in Range(Triples(m)) : h[u[3]].owner = "config.xml"}}

\* what a call of add_config_changes leaves: the documents and the entries
\* of the reserved owner
Outcome(st) ==
    [err |-> st.err,
     docs |-> [f \in Files |-> st.keeper[f].data],
     owned |-> OwnedEntries(st.heap, st.munge)]

\* add_config_changes with app manifest config, now and on the state the
\* last call found
RunNow(config) ==
    add_config_changes(PassState(heap, base, config_keeper, installed_plugins), config)
RunInstead(config) ==
    add_config_changes(PassState(pass.preHeap, pass.preMunge, pass.preKeeper,
                                 pass.preInstalled), config)

\* C18 as stated: after add_config_changes with an app manifest C1 on
\* documents no app manifest was applied to, add_config_changes with any
\* app manifest C2 leaves the target documents and the munge entries of the
\* app manifest as add_config_changes with C2 alone leaves them.
C18_RerunReconciles ==
    (/\ pass.op = "add_config_changes"
     /\ ~pass.err
     /\ OwnedEntries(pass.preHeap, pass.preMunge) = {})
    => \A c2 \in AppManifests : Outcome(RunNow(c2)) = Outcome(RunInstead(c2))

(***************************************************************************)
(* Platform Munger of a project whose config.xml is on disk: passes of     *)
(* process, some of which fail at a graft, and save_all.                   *)
(***************************************************************************)
SaveInit ==
    /\ heap = <<>>
    /\ base = EmptyMunge
    /\ delta = EmptyMunge
    /\ diff = EmptyMunge
    /\ last = NoCall
    /\ made = 0
    /\ original \in SaveOriginals
    /\ config_keeper = SaveHandles(original)
    /\ installed_plugins = NoPlugins
    /\ prepare_queue = EmptyQueue
    /\ pass = NoPass
    /\ plugins_dir = SavePluginIds

\* PlatformMunger.save_all()
SaveAll ==
    /\ \E out \in {save_all(config_keeper)} :
         /\ config_keeper' = out.keeper
         /\ pass' = [PassRecordOf("save_all", "",
                                  PassState(heap, base, config_keeper, installed_plugins))
                       EXCEPT !.written = out.written]
    /\ UNCHANGED <<heap, base, delta, diff, last, made, installed_plugins, prepare_queue,
                   original, plugins_dir>>

SaveNext ==
    \/ addInstalledPluginToPrepareQueue
    \/ addUninstalledPluginToPrepareQueue
    \/ Process
    \/ SaveAll

SpecSave == SaveInit /\ [][SaveNext]_vars

\* the positions of the writes of a file
WritesOf(f) == {i \in 1..Len(pass.written) : pass.written[i].filepath = f}

\* C19: save_all writes every Config File handle that is dirty exactly once,
\* with the data the handle holds, and writes no handle that is clean;
\* after it no handle is dirty.
C19_SaveAllWritesDirtyOnce ==
    pass.op = "save_all" =>
        /\ \A f \in Files :
              IF pass.preKeeper[f].is_changed
              THEN /\ Cardinality(WritesOf(f)) = 1
                   /\ \A i \in WritesOf(f) : pass.written[i].data = pass.preKeeper[f].data
              ELSE WritesOf(f) = {}
        /\ \A f \in Files : ~config_keeper[f].is_changed
        /\ \A f \in Files : config_keeper[f].data = pass.preKeeper[f].data

\* a save_all with one handle dirty and the other clean
C19_Witness ==
    /\ pass.op = "save_all"
    /\ pass.preKeeper["config.xml"].is_changed
    /\ ~pass.preKeeper["AndroidManifest.xml"].is_changed
    /\ Len(pass.written) = 1
    /\ pass.written[1].filepath = "config.xml"

\* the last pass of process stopped at a graft or a prune that failed
FragmentFailure ==
    /\ pass.op = "process"
    /\ pass.err
    /\ pass.error.kind \in {"Unable to graft xml", "Pruning went bad"}

\* the requests of the last pass in the order process takes them
PassOrder == pass.uninstalled \o pass.installed

LastStep == CHOOSE i \in MungeSteps : \A j \in MungeSteps : j <= i

\* the fragment of step i that follows the ones whose primitive was called
NextFragment(i) == OnExisting(pass.log[i].returned)[Cardinality(CallsAfter(i)) + 1]

\* the pass stopped in step i, at the request the step belongs to and at
\* the first fragment of the step without a call, and the error names the
\* selector and the file of that fragment
StoppedAt(i) ==
    /\ pass.log[i].plugin = PassOrder[Cardinality(MungeSteps)]
    /\ CallsAfter(i) = (i + 1)..Len(pass.log)
    /\ Cardinality(CallsAfter(i)) < Len(OnExisting(pass.log[i].returned))
    /\ pass.error.selector = NextFragment(i).selector
    /\ pass.error.file = NextFragment(i).file
    /\ pass.error.kind = IF pass.log[i].op = "increment" THEN "Unable to graft xml"
                         ELSE "Pruning went bad"

\* the pass is a prefix of what is queued now
QueueKept ==
    /\ SubSeq(prepare_queue.installed, 1, Len(pass.queue.installed)) = pass.queue.installed
    /\ SubSeq(prepare_queue.uninstalled, 1, Len(pass.queue.uninstalled)) = pass.queue.uninstalled

PruneFailure ==
    /\ FragmentFailure
    /\ pass.error.kind = "Pruning went bad"
    /\ pass.error.selector = "/manifest/application"
    /\ pass.error.file = "AndroidManifest.xml"
    /\ "X" \in Range(pass.uninstalled)
    /\ "X" \in DOMAIN installed_plugins

(***************************************************************************)
(* Properties of the uninstall of a plugin with variables (SpecVars).      *)
(***************************************************************************)
\* the fragments a plugin declares, with the variables replaced
Declared(p, variables) ==
    [k \in 1..Len(ConfigChanges(p)) |->
        [file |-> ConfigChanges(p)[k][1], selector |-> ConfigChanges(p)[k][2],
         xml |-> Expand(ConfigChanges(p)[k][3], variables), mode |-> ConfigChanges(p)[k][5]]]

DecrementSteps == {i \in 1..Len(pass.log) : pass.log[i].op = "decrement"}

\* C21: the munge of an uninstall is generated with the variables recorded
\* for the plugin in installed_plugins, and (the plugins of SpecVars share no
\* fragment) the fragments the decrement returns are the fragments the
\* plugin declares with those variables: the ones its install incremented.
C21_UninstallUsesRecordedVars ==
    pass.op = "process" =>
        \A i \in DecrementSteps :
            /\ pass.log[i].plugin \in DOMAIN pass.preInstalled
            /\ pass.log[i].vars = pass.preInstalled[pass.log[i].plugin]
            /\ pass.log[i].returned
                  = Declared(pass.log[i].plugin, pass.preInstalled[pass.log[i].plugin])

\* V was installed with API_KEY = "hi"; one pass uninstalls it and installs
\* it with "yo": the fragment pruned is the one with "hi"
C21_Witness ==
    /\ pass.op = "process"
    /\ ~pass.err
    /\ pass.uninstalled = <<"V">>
    /\ pass.queue.installed = <<InstallRequest("V", ApiKey("yo"), FALSE)>>
    /\ pass.preInstalled["V"] = ApiKey("hi")
    /\ pass.prunes = << <<"AndroidManifest.xml", "/manifest", "<key>hi</key>">> >>
    /\ pass.grafts = << <<"AndroidManifest.xml", "/manifest", "<key>yo</key>">> >>

(***************************************************************************)
(* generate_plugin_config_munge on the <config-file> elements of one       *)
(* plugin: up to MaxTags elements for a file and a selector, each with up  *)
(* to MaxChildren children, some of them comments.  delta is the munge     *)
(* that is returned, last records the elements.                            *)
(***************************************************************************)
ChildXmls == {"<a/>", "<b/>", "<!--c-->"}

SeqsUpTo(S, n) == UNION {[1..k -> S] : k \in 1..n}

Declarations ==
    SeqsUpTo({ConfigFileTag(f, "/manifest", xmls) :
                 f \in Files, xmls \in SeqsUpTo(ChildXmls, MaxChildren)}, MaxTags)

Generate ==
    /\ last = NoCall
    /\ \E tags \in Declarations :
         \E g \in {generateLoop(<<>>, EmptyMunge, Changes(tags), NoVars, "")} :
           /\ Store(g.heap, EmptyMunge, g.munge, EmptyMunge)
           /\ last' = [op |-> "generate", tags |-> tags]
    /\ UNCHANGED <<made, config_keeper, installed_plugins, prepare_queue, pass, original,
                   plugins_dir>>

SpecGen == MungeInit /\ [][Generate]_vars

\* the number of positions of a sequence that hold x
RECURSIVE CountOf(_, _)
CountOf(seq, x) ==
    IF seq = <<>> THEN 0
    ELSE (IF Head(seq) = x THEN 1 ELSE 0) + CountOf(Tail(seq), x)

\* the number of times the elements declare the child for the file and the
\* selector
RECURSIVE DeclaredTimes(_, _, _, _)
DeclaredTimes(tags, f, s, xml) ==
    IF tags = <<>> THEN 0
    ELSE (IF Head(tags).target = f /\ Head(tags).parent = s
          THEN CountOf(Head(tags).xmls, xml) ELSE 0)
         + DeclaredTimes(Tail(tags), f, s, xml)

\* the entries of the list of the returned munge that hold the xml
EntriesOf(f, s, xml) ==
    {i \in 1..Len(ViewList(Deref(heap, delta), f, s)) :
        ViewList(Deref(heap, delta), f, s)[i].xml = xml}

\* C22: in the munge generate_plugin_config_munge returns, a child that is
\* declared n > 0 times for a file and a selector is one entry of its own
\* with count n, a child that is not declared has no entry, and a comment
\* has no entry.
C22_OneEntryPerChild ==
    last.op = "generate" =>
        \A f \in Files, s \in Selectors, xml \in ChildXmls :
            IF IsComment(xml) \/ DeclaredTimes(last.tags, f, s, xml) = 0
            THEN EntriesOf(f, s, xml) = {}
            ELSE /\ Cardinality(EntriesOf(f, s, xml)) = 1
                 /\ \A i \in EntriesOf(f, s, xml) :
                       ViewList(Deref(heap, delta), f, s)[i].count
                          = DeclaredTimes(last.tags, f, s, xml)

\* two <config-file> elements with the same target and parent, each with
\* the child <a/> and one with a comment: one entry with count 2, and one
\* entry for the other child
C22_Witness ==
    /\ last.op = "generate"
    /\ last.tags = <<ConfigFileTag("AndroidManifest.xml", "/manifest", <<"<a/>", "<!--c-->">>),
                     ConfigFileTag("AndroidManifest.xml", "/manifest", <<"<b/>", "<a/>">>)>>
    /\ Len(ViewList(Deref(heap, delta), "AndroidManifest.xml", "/manifest")) = 2
    /\ ViewList(Deref(heap, delta), "AndroidManifest.xml", "/manifest")[1].xml = "<a/>"
    /\ ViewList(Deref(heap, delta), "AndroidManifest.xml", "/manifest")[1].count = 2

(***************************************************************************)
(* equalNodes on two parsed elements.  An element is written as its tag,   *)
(* its text, its attributes in the order they are written, and its         *)
(* children; et.XML makes the attributes an object.                        *)
(***************************************************************************)
Written(tag, attrs, text, kids) == [tag |-> tag, attrs |-> attrs, text |-> text, kids |-> kids]

\* attributes as written: name and value pairs, in two orders
AttrLists ==
    { <<>>, << <<"k", "1">> >>,
      << <<"k", "1">>, <<"j", "1">> >>, << <<"j", "1">>, <<"k", "1">> >>,
      << <<"k", "2">>, <<"j", "1">> >> }

\* the object an attribute list parses to
AttribObject(attrs) ==
    [k \in {attrs[i][1] : i \in 1..Len(attrs)} |->
        attrs[CHOOSE i \in 1..Len(attrs) : attrs[i][1] = k][2]]

\* et.XML of a written element
RECURSIVE ParseWritten(_)
ParseWritten(w) ==
    Node(w.tag, AttribObject(w.attrs), w.text, [i \in 1..Len(w.kids) |-> ParseWritten(w.kids[i])])

WrittenLeaves ==
    {Written(tag, attrs, text, <<>>) : tag \in {"a", "b"}, attrs \in AttrLists,
                                       text \in {"", " ", "t"}}

WrittenKids ==
    { Written("a", <<>>, "", <<>>),
      Written("a", << <<"k", "1">>, <<"j", "1">> >>, "", <<>>),
      Written("a", << <<"j", "1">>, <<"k", "1">> >>, " ", <<>>),
      Written("b", <<>>, "", <<>>) }

WrittenNodes ==
    WrittenLeaves \cup {Written("p", <<>>, "", kids) : kids \in SeqsUpTo(WrittenKids, MaxKids)}

\* one call of equalNodes; last records the arguments and the result
EqualNodes ==
    /\ last = NoCall
    /\ \E one \in WrittenNodes, two \in WrittenNodes :
         last' = [op |-> "equalNodes", one |-> one, two |-> two,
                  ret |-> equalNodes(ParseWritten(one), ParseWritten(two))]
    /\ UNCHANGED <<heap, base, delta, diff, made, config_keeper, installed_plugins,
                   prepare_queue, pass, original, plugins_dir>>

SpecEqual == MungeInit /\ [][EqualNodes]_vars

\* the name and value pairs of an element, as a set
AttrPairs(w) == {w.attrs[i] : i \in 1..Len(w.attrs)}

\* same tag, same text apart from surrounding whitespace, the same attribute
\* names with the same values, and children that are the same pairwise
RECURSIVE SameElement(_, _)
SameElement(one, two) ==
    /\ one.tag = two.tag
    /\ (one.text \in {"", " "} /\ two.text \in {"", " "}) \/ one.text = two.text
    /\ AttrPairs(one) = AttrPairs(two)
    /\ Len(one.kids) = Len(two.kids)
    /\ \A i \in 1..Len(one.kids) : SameElement(one.kids[i], two.kids[i])

\* C23: equalNodes(a, b) is true iff tags, trimmed texts, attributes (in
\* any order) and children (pairwise, in order and number) are equal; it
\* is reflexive and symmetric.
C23_EqualNodesStructural ==
    last.op = "equalNodes" =>
        /\ last.ret = SameElement(last.one, last.two)
        /\ last.one = last.two => last.ret
        /\ last.ret = equalNodes(ParseWritten(last.two), ParseWritten(last.one))

\* two parents whose children differ in the order of the attributes and in
\* whitespace text are equal
C23_Witness ==
    /\ last.op = "equalNodes"
    /\ last.ret
    /\ last.one = Written("p", <<>>, "",
                     <<Written("a", << <<"k", "1">>, <<"j", "1">> >>, "", <<>>)>>)
    /\ last.two = Written("p", <<>>, "",
                     <<Written("a", << <<"j", "1">>, <<"k", "1">> >>, " ", <<>>)>>)

(***************************************************************************)
(* graftXML and pruneXML called on one document, call after call.  last    *)
(* records the arguments of the last call, the document before it (pre)    *)
(* and after it (doc), and what it returned.                               *)
(***************************************************************************)
\* documents whose root has children, also two that are equal
XmlOriginals ==
    {Node("manifest", NoAttrib, "", kids) :
        kids \in {<<>>, <<Parse("<a/>")>>, <<Parse("<a/>"), Parse("<b/>")>>,
                  <<Parse("<a/>"), Parse("<b/>"), Parse("<a/>")>>,
                  <<Parse("<b/>"), Parse("<a/>"), Parse("<a/>")>>}}

\* the nodes of one call, as xml
NodeXmls ==
    { <<"<a/>">>, <<"<b/>">>, <<"<application/>">>,
      <<"<a/>", "<a/>">>, <<"<a/>", "<b/>">>, <<"<b/>", "<a/>">> }

ParseAll(xmls) == [i \in 1..Len(xmls) |-> Parse(xmls[i])]

XmlSelectors == {"/manifest", "/manifest/application", "/widget"}
XmlAfters == {"", "b;a", "c;b;a"}

XmlInit ==
    /\ heap = <<>>
    /\ base = EmptyMunge
    /\ delta = EmptyMunge
    /\ diff = EmptyMunge
    /\ last = NoCall
    /\ made = 0
    /\ original \in XmlOriginals
    /\ config_keeper = Handles(original)
    /\ installed_plugins = NoPlugins
    /\ prepare_queue = EmptyQueue
    /\ pass = NoPass
    /\ plugins_dir = {}

\* the number of elements below a node
RECURSIVE BelowAll(_)
BelowAll(kids) ==
    IF kids = <<>> THEN 0 ELSE 1 + BelowAll(Head(kids).kids) + BelowAll(Tail(kids))

Below(n) == BelowAll(n.kids)

\* the document the next call is made on
Doc == IF last = NoCall THEN original ELSE last.doc

XmlCall(op, xmls, selector, after, c) ==
    [op |-> op, pre |-> Doc, nodes |-> xmls, selector |-> selector, after |-> after,
     ret |-> c.ok, doc |-> c.doc]

GraftXML ==
    /\ \E xmls \in NodeXmls, selector \in XmlSelectors, after \in XmlAfters :
         \E c \in {graftXML(Doc, ParseAll(xmls), selector, after)} :
           /\ Below(c.doc) <= MaxDocKids
           /\ last' = XmlCall("graftXML", xmls, selector, after, c)
    /\ UNCHANGED <<heap, base, delta, diff, made, config_keeper, installed_plugins,
                   prepare_queue, pass, original, plugins_dir>>

PruneXML ==
    /\ \E xmls \in NodeXmls, selector \in XmlSelectors :
         last' = XmlCall("pruneXML", xmls, selector, "",
                         pruneXML(Doc, ParseAll(xmls), selector))
    /\ UNCHANGED <<heap, base, delta, diff, made, config_keeper, installed_plugins,
                   prepare_queue, pass, original, plugins_dir>>

XmlNext ==
    \/ GraftXML
    \/ PruneXML

SpecXml == XmlInit /\ [][XmlNext]_vars

\* the children of the node a selector resolves to
KidsAt(doc, selector) == NodeAt(uberRoot(doc), resolveParent(doc, selector)).kids

\* C24: a graftXML that returned true, called again with the same nodes at
\* the same selector, returns true and leaves the document, and so the
\* child list of the parent, as the first call left it.
C24_GraftIdempotent ==
    (last.op = "graftXML" /\ last.ret) =>
        graftXML(last.doc, ParseAll(last.nodes), last.selector, last.after)
            = [ok |-> TRUE, doc |-> last.doc]

\* a graft that created the parent and inserted two nodes, one of them
\* given twice
C24_Witness ==
    /\ last.op = "graftXML"
    /\ last.ret
    /\ last.selector = "/manifest/application"
    /\ last.nodes = <<"<a/>", "<a/>">>
    /\ resolveParent(last.pre, "/manifest/application") = Unresolved
    /\ KidsAt(last.doc, "/manifest/application") = <<Parse("<a/>")>>

\* the last call grafted one node that the parent, which was there, did not
\* have
GraftedOne ==
    /\ last.op = "graftXML"
    /\ last.ret
    /\ Len(last.nodes) = 1
    /\ resolveParent(last.pre, last.selector) # Unresolved
    /\ \A i \in 1..Len(KidsAt(last.pre, last.selector)) :
          ~equalNodes(Parse(last.nodes[1]), KidsAt(last.pre, last.selector)[i])

\* the entries of an after list that are the tag of a child
MatchingEntries(tags, kids) ==
    {j \in 1..Len(tags) : \E i \in 1..Len(kids) : kids[i].tag = tags[j]}

\* the number of children up to the last one with the tag
UpToLast(kids, tag) ==
    CHOOSE i \in 1..Len(kids) :
        kids[i].tag = tag /\ \A j \in (i + 1)..Len(kids) : kids[j].tag # tag

\* the children with the node behind the first n of them
Behind(kids, n, node) == SubSeq(kids, 1, n) \o <<node>> \o SubSeq(kids, n + 1, Len(kids))

\* where the spec puts a node among the children
Placed(kids, tags, node) ==
    IF MatchingEntries(tags, kids) = {} THEN <<node>> \o kids
    ELSE Behind(kids, UpToLast(kids, tags[Min(MatchingEntries(tags, kids))]), node)

\* C25: with after, the node is inserted immediately behind the last child
\* whose tag is the first entry of after that is the tag of a child, and
\* before all children when no entry is; without after it is appended.
C25_InsertBehindAfter ==
    GraftedOne =>
        KidsAt(last.doc, last.selector)
          = IF last.after = ""
            THEN Append(KidsAt(last.pre, last.selector), Parse(last.nodes[1]))
            ELSE Placed(KidsAt(last.pre, last.selector), AfterTags(last.after),
                        Parse(last.nodes[1]))

\* children [b, a] without c and after "c;b;a": the node goes behind b,
\* to index 1
C25_Witness ==
    /\ GraftedOne
    /\ last.after = "c;b;a"
    /\ last.selector = "/manifest"
    /\ last.pre.kids = <<Parse("<b/>"), Parse("<a/>")>>
    /\ last.doc.kids = <<Parse("<b/>"), Parse("<application/>"), Parse("<a/>")>>

\* the example of the spec: children [a, b] and after "c;b;a" give index 2
AfterExample ==
    /\ GraftedOne
    /\ last.after = "c;b;a"
    /\ last.pre.kids = <<Parse("<a/>"), Parse("<b/>")>>
    /\ last.doc.kids = <<Parse("<a/>"), Parse("<b/>"), Parse("<application/>")>>

(***************************************************************************)
(* graftXMLMerge, graftXMLOverwrite and pruneXMLRestore on one document:   *)
(* one graft of attributes, then the restore with the same fragment.       *)
(***************************************************************************)
\* attribute names and values of the documents and the candidate nodes
AttrNames == {"v", "w"}
AttrValues == {"1", "2"}

\* the attribute objects over these names and values
AttribObjects == UNION {[names -> AttrValues] : names \in SUBSET AttrNames}

\* the documents: a manifest and its application, both with attributes
AttrOriginals ==
    {Node("manifest", m, "", <<Node("application", n, "", <<>>)>>) :
        m \in AttribObjects, n \in {NoAttrib, "v" :> "1"}}

\* the candidate nodes of one call: one node, or two
Candidates ==
    {<<Node("manifest", m, "", <<>>)>> : m \in AttribObjects}
      \cup {<<Node("manifest", m, "", <<>>), Node("manifest", n, "", <<>>)>> :
              m \in AttribObjects, n \in {"v" :> "2", "w" :> "1"}}

AttrInit ==
    /\ heap = <<>>
    /\ base = EmptyMunge
    /\ delta = EmptyMunge
    /\ diff = EmptyMunge
    /\ last = NoCall
    /\ made = 0
    /\ original \in AttrOriginals
    /\ config_keeper = Handles(original)
    /\ installed_plugins = NoPlugins
    /\ prepare_queue = EmptyQueue
    /\ pass = NoPass
    /\ plugins_dir = {}

\* a call of graftXMLMerge or graftXMLOverwrite and what it left: fragment
\* is the xml passed, with the oldAttrib the call stored on it
AttrCall(op, nodes, selector, c) ==
    [op |-> op, pre |-> original, nodes |-> nodes, selector |-> selector,
     ret |-> c.ok, doc |-> c.doc,
     fragment |-> [hasOld |-> c.ok, oldAttrib |-> c.oldAttrib]]

GraftXMLMerge ==
    /\ last.op = "none"
    /\ \E nodes \in Candidates, selector \in XmlSelectors :
         last' = AttrCall("graftXMLMerge", nodes, selector,
                          graftXMLMerge(original, nodes, selector))
    /\ UNCHANGED <<heap, base, delta, diff, made, config_keeper, installed_plugins,
                   prepare_queue, pass, original, plugins_dir>>

GraftXMLOverwrite ==
    /\ last.op = "none"
    /\ \E nodes \in Candidates, selector \in XmlSelectors :
         last' = AttrCall("graftXMLOverwrite", nodes, selector,
                          graftXMLOverwrite(original, nodes, selector))
    /\ UNCHANGED <<heap, base, delta, diff, made, config_keeper, installed_plugins,
                   prepare_queue, pass, original, plugins_dir>>

\* pruneXMLRestore with the fragment and the selector of the graft before it
PruneXMLRestore ==
    /\ last.op \in {"graftXMLMerge", "graftXMLOverwrite"}
    /\ \E c \in {pruneXMLRestore(last.doc, last.selector, last.fragment)} :
         last' = [op |-> "pruneXMLRestore", pre |-> last.doc, nodes |-> last.nodes,
                  selector |-> last.selector, ret |-> c.ok, doc |-> c.doc,
                  fragment |-> last.fragment, graft |-> last.op, grafted |-> last.ret]
    /\ UNCHANGED <<heap, base, delta, diff, made, config_keeper, installed_plugins,
                   prepare_queue, pass, original, plugins_dir>>

AttrNext ==
    \/ GraftXMLMerge
    \/ GraftXMLOverwrite
    \/ PruneXMLRestore

SpecAttr == AttrInit /\ [][AttrNext]_vars

\* the attributes the candidate nodes name
Named(nodes) == UNION {DOMAIN nodes[i].attrib : i \in 1..Len(nodes)}

\* the value of the last candidate that names the attribute
CandidateValue(nodes, k) ==
    nodes[CHOOSE i \in 1..Len(nodes) :
            /\ k \in DOMAIN nodes[i].attrib
            /\ \A j \in (i + 1)..Len(nodes) : k \notin DOMAIN nodes[j].attrib].attrib[k]

\* the target has these names, the named ones with the candidates' values
\* and the others with the values they had
AttribIs(post, names, pre, nodes) ==
    /\ DOMAIN post = names
    /\ \A k \in names :
          post[k] = IF k \in Named(nodes) THEN CandidateValue(nodes, k) ELSE pre[k]

\* C26: graftXMLMerge keeps every target attribute no candidate names and
\* sets every attribute a candidate names to the candidate's value;
\* graftXMLOverwrite leaves exactly the candidates' attributes; both store
\* the target's attributes of before the call in the fragment's oldAttrib.
C26_MergeAndOverwrite ==
    /\ (last.op = "graftXMLMerge" /\ last.ret) =>
          /\ AttribIs(TargetAttrib(last.doc, last.selector),
                      DOMAIN TargetAttrib(last.pre, last.selector) \cup Named(last.nodes),
                      TargetAttrib(last.pre, last.selector), last.nodes)
          /\ last.fragment.hasOld
          /\ last.fragment.oldAttrib = TargetAttrib(last.pre, last.selector)
    /\ (last.op = "graftXMLOverwrite" /\ last.ret) =>
          /\ AttribIs(TargetAttrib(last.doc, last.selector), Named(last.nodes),
                      TargetAttrib(last.pre, last.selector), last.nodes)
          /\ last.fragment.hasOld
          /\ last.fragment.oldAttrib = TargetAttrib(last.pre, last.selector)

\* a merge onto v='1' w='1' of a candidate with v='2': v changes, w stays
C26_Witness ==
    /\ last.op = "graftXMLMerge"
    /\ last.ret
    /\ last.selector = "/manifest"
    /\ last.nodes = <<Node("manifest", "v" :> "2", "", <<>>)>>
    /\ last.pre.attrib = [k \in AttrNames |-> "1"]
    /\ last.doc.attrib = ("v" :> "2") @@ ("w" :> "1")
    /\ last.fragment.oldAttrib = [k \in AttrNames |-> "1"]

\* an overwrite of v='1' w='1' by a candidate with v='2': w is gone
OverwriteExample ==
    /\ last.op = "graftXMLOverwrite"
    /\ last.ret
    /\ last.selector = "/manifest"
    /\ last.nodes = <<Node("manifest", "v" :> "2", "", <<>>)>>
    /\ last.pre.attrib = [k \in AttrNames |-> "1"]
    /\ last.doc.attrib = "v" :> "2"
    /\ last.fragment.oldAttrib = [k \in AttrNames |-> "1"]

\* C27: a graftXMLMerge or graftXMLOverwrite that found its target, followed
\* by pruneXMLRestore with the same fragment at the same selector, leaves
\* the document, and so the target's attributes, as before the graft.
C27_RestoreUndoesGraft ==
    (last.op = "pruneXMLRestore" /\ last.grafted) =>
        /\ last.ret
        /\ last.doc = original
        /\ TargetAttrib(last.doc, last.selector) = last.fragment.oldAttrib

\* the restore after a merge that had added w and changed v
C27_Witness ==
    /\ last.op = "pruneXMLRestore"
    /\ last.grafted
    /\ last.graft = "graftXMLMerge"
    /\ last.selector = "/manifest/application"
    /\ TargetAttrib(last.pre, last.selector) = ("v" :> "2") @@ ("w" :> "1")
    /\ TargetAttrib(last.doc, last.selector) = "v" :> "1"

\* the restore after an overwrite that had cleared w and changed v
RestoreAfterOverwrite ==
    /\ last.op = "pruneXMLRestore"
    /\ last.grafted
    /\ last.graft = "graftXMLOverwrite"
    /\ last.selector = "/manifest"
    /\ TargetAttrib(last.pre, last.selector) = "v" :> "2"
    /\ TargetAttrib(last.doc, last.selector) = [k \in AttrNames |-> "1"]

(***************************************************************************)
(* Platform Munger with plugins that share an <edit-config> child: the     *)
(* plugins directory holds E1, E2 and E3.                                  *)
(***************************************************************************)
ShareInit == ProcStart(EditOriginals, SharePluginIds)

SpecShare == ShareInit /\ [][ProcNext]_vars

\* the last pass was one uninstall, and it completed
UninstalledOne ==
    /\ pass.op = "process"
    /\ ~pass.err
    /\ pass.queue.installed = <<>>
    /\ Len(pass.queue.uninstalled) = 1

\* the decrement of that pass: the munge generated for the plugin, taken
\* from config_munge as it was
DecrementOfPass ==
    Bind(generate_plugin_config_munge(pass.preHeap, pass.queue.uninstalled[1].plugin,
                                      pass.preInstalled[pass.queue.uninstalled[1].plugin]),
         LAMBDA g : decrement_munge(g.heap, pass.preMunge, g.munge))

\* the fragment the decrement of that pass returned for c
ReturnedFragment(c) ==
    ViewEntry(Deref(DecrementOfPass.heap, DecrementOfPass.diff), c[1], c[2], c[3])

\* C28: an uninstall that removes a merge or overwrite entry from
\* config_munge gets the entry's oldAttrib on the fragment the decrement
\* returns, and the pruneXMLRestore called with it leaves the target with
\* those attributes; an uninstall that only lowers the entry's count leaves
\* the entry with its oldAttrib and calls no primitive.
C28_SnapshotForwarded ==
    UninstalledOne =>
        \A c \in EditFragments(pass.queue.uninstalled[1].plugin) :
            ViewHas(pass.pre, c[1], c[2], c[3]) =>
                /\ ViewEntry(pass.pre, c[1], c[2], c[3]).hasOld
                /\ IF ViewEntry(pass.pre, c[1], c[2], c[3]).count > 1
                   THEN /\ ViewHas(Post, c[1], c[2], c[3])
                        /\ ViewEntry(Post, c[1], c[2], c[3]).hasOld
                        /\ ViewEntry(Post, c[1], c[2], c[3]).oldAttrib
                              = ViewEntry(pass.pre, c[1], c[2], c[3]).oldAttrib
                        /\ PrunesOf(<<c[1], c[2], c[3]>>) = 0
                   ELSE /\ ~ViewHas(Post, c[1], c[2], c[3])
                        /\ ReturnedFragment(c).hasOld
                        /\ ReturnedFragment(c).oldAttrib
                              = ViewEntry(pass.pre, c[1], c[2], c[3]).oldAttrib
                        /\ PrunesOf(<<c[1], c[2], c[3]>>) = 1
                        /\ \E i \in 1..Len(pass.log) :
                              /\ pass.log[i].op = "prune"
                              /\ pass.log[i].xml = c[3]
                              /\ pass.log[i].called = "pruneXMLRestore"
                        /\ TargetAttrib(config_keeper[c[1]].data, c[2])
                              = ViewEntry(pass.pre, c[1], c[2], c[3]).oldAttrib

\* E3 alone held the merge of v = 1 and a pass has uninstalled it: /manifest
\* has the attributes it had before the merge
C28_Witness ==
    /\ UninstalledOne
    /\ pass.queue.uninstalled[1].plugin = "E3"
    /\ ViewEntry(pass.pre, "AndroidManifest.xml", "/manifest", "<manifest v='1'/>").count = 1
    /\ TargetAttrib(pass.preKeeper["AndroidManifest.xml"].data, "/manifest")["v"] = "1"
    /\ TargetAttrib(config_keeper["AndroidManifest.xml"].data, "/manifest")
          = ("v" :> "0") @@ ("w" :> "9")

\* E1 and E3 held the merge and a pass has uninstalled E1: the entry is
\* left with count 1 and its oldAttrib
SnapshotKept ==
    /\ UninstalledOne
    /\ pass.queue.uninstalled[1].plugin = "E1"
    /\ ViewEntry(pass.pre, "AndroidManifest.xml", "/manifest", "<manifest v='1'/>").count = 2
    /\ ViewEntry(Post, "AndroidManifest.xml", "/manifest", "<manifest v='1'/>").count = 1
    /\ ViewEntry(Post, "AndroidManifest.xml", "/manifest", "<manifest v='1'/>").oldAttrib
          = ("v" :> "0") @@ ("w" :> "9")
    /\ TargetAttrib(config_keeper["AndroidManifest.xml"].data, "/manifest")["v"] = "1"

(***************************************************************************)
(* The munge store with fragments that are written differently and parse   *)
(* to equal elements: the same attributes in another order.                *)
(***************************************************************************)
\* the (file, selector, xml) triples of the caller: two spellings of one
\* element
WrittenTriples ==
    { <<"AndroidManifest.xml", "/manifest", "<manifest v='1' w='9'/>">>,
      <<"AndroidManifest.xml", "/manifest", "<manifest w='9' v='1'/>">> }

\* the caller's delta descriptions over these triples
WrittenDeltaSeqs ==
    {q \in UNION {[1..n -> WrittenTriples \X {1}] : n \in 1..MaxElems} :
        \A i, j \in 1..Len(q) : i # j => q[i][1] # q[j][1]}

WrittenNewDelta ==
    /\ made < MaxDeltas
    /\ \E q \in WrittenDeltaSeqs :
         \E b \in {BuildMunge(heap, EmptyMunge, q)} :
           /\ Store(b.heap, base, b.munge, EmptyMunge)
           /\ last' = [NoCall EXCEPT !.op = "new_delta"]
    /\ made' = made + 1
    /\ UNCHANGED procVars

WrittenDeepAdd ==
    /\ \E t \in WrittenTriples, c \in {1} :
         \E h1 \in {Append(heap, Element(t[3], c, "", ""))} :
           \E o \in {deep_add(h1, base, t[1], t[2], Len(h1))} :
             /\ Capped(o.heap, o.munge)
             /\ Store(o.heap, o.munge, EmptyMunge, EmptyMunge)
             /\ last' = Call("deep_add", t[1], t[2], t[3], c, o.ret, o.err)
    /\ UNCHANGED <<made, procVars>>

WrittenDeepRemove ==
    /\ \E t \in WrittenTriples, c \in {1} :
         \E h1 \in {Append(heap, Element(t[3], c, "", ""))} :
           \E o \in {deep_remove(h1, base, t[1], t[2], Len(h1))} :
             /\ Store(o.heap, o.munge, EmptyMunge, EmptyMunge)
             /\ last' = Call("deep_remove", t[1], t[2], t[3], c, o.ret, o.err)
    /\ UNCHANGED <<made, procVars>>

WrittenNext ==
    \/ WrittenNewDelta
    \/ WrittenDeepAdd
    \/ WrittenDeepRemove
    \/ Increment
    \/ Decrement

SpecWritten == MungeInit /\ [][WrittenNext]_vars

\* C29: no list of the munge holds two entries whose fragments are
\* structurally equal (same tag, text, attributes in any order, children).
C29_NoStructuralDuplicates ==
    \A f \in Files, s \in Selectors :
        \A i, j \in 1..Len(ViewList(Post, f, s)) :
            i # j => ~equalNodes(Parse(ViewList(Post, f, s)[i].xml),
                                 Parse(ViewList(Post, f, s)[j].xml))

\* no list of the munge holds two entries with the same xml string
NoEqualXml ==
    \A f \in Files, s \in Selectors :
        \A i, j \in 1..Len(ViewList(Post, f, s)) :
            i # j => ViewList(Post, f, s)[i].xml # ViewList(Post, f, s)[j].xml

(***************************************************************************)
(* Properties of pruneXML under SpecXml.                                   *)
(***************************************************************************)
\* the node is structurally equal to one of the nodes given as xml
EqualToOne(kid, xmls) == \E i \in 1..Len(xmls) : equalNodes(Parse(xmls[i]), kid)

\* the children that are equal to none of the nodes, in their order
KeptKids(kids, xmls) == SelectSeq(kids, LAMBDA kid : ~EqualToOne(kid, xmls))

\* C30: after a pruneXML that returned true the parent has no child that
\* is structurally equal to one of the nodes, and the children equal to none
\* of them are all there in their original order.
C30_PruneRemovesEveryEqual ==
    (last.op = "pruneXML" /\ last.ret) =>
        /\ \A i \in 1..Len(KidsAt(last.doc, last.selector)) :
              ~EqualToOne(KidsAt(last.doc, last.selector)[i], last.nodes)
        /\ KidsAt(last.doc, last.selector)
              = KeptKids(KidsAt(last.pre, last.selector), last.nodes)

\* the children equal to none of the nodes are all there in their order
\* after a pruneXML that returned true
PruneKeepsOthers ==
    (last.op = "pruneXML" /\ last.ret) =>
        KeptKids(KidsAt(last.doc, last.selector), last.nodes)
            = KeptKids(KidsAt(last.pre, last.selector), last.nodes)

\* a pruneXML of one node removes the first child equal to it and no other
PruneRemovesFirst ==
    (last.op = "pruneXML" /\ last.ret /\ Len(last.nodes) = 1) =>
        \/ /\ findChild(Parse(last.nodes[1]), NodeAt(uberRoot(last.pre),
                                                   resolveParent(last.pre, last.selector))) = 0
           /\ last.doc = last.pre
        \/ /\ findChild(Parse(last.nodes[1]), NodeAt(uberRoot(last.pre),
                                                   resolveParent(last.pre, last.selector))) # 0
           /\ KidsAt(last.doc, last.selector)
                 = RemoveAt(KidsAt(last.pre, last.selector),
                            findChild(Parse(last.nodes[1]),
                                      NodeAt(uberRoot(last.pre),
                                             resolveParent(last.pre, last.selector))))

(***************************************************************************)
(* The six tree primitives of xml-helpers.js, each called once on a        *)
(* document whose elements have attributes, also empty ones, at selectors  *)
(* that resolve, that name a parent to create, and that name another root. *)
(***************************************************************************)
\* the attribute objects of the documents and the nodes: values may be empty
PrimAttribs == UNION {[names -> {"", "1"}] : names \in SUBSET {"v", "w"}}

PrimOriginals ==
    {Node("manifest", m, "", kids) :
        m \in PrimAttribs,
        kids \in {<<>>, <<Parse("<a/>")>>,
                  <<Node("application", NoAttrib, "", <<>>)>>,
                  <<Node("application", "v" :> "1", "", <<>>)>>}}

PrimSelectors == {"/manifest", "/manifest/application", "/widget", "/widget/application"}

\* the nodes of a graftXML or pruneXML call
PrimNodes == {<<Parse("<a/>")>>, <<Parse("<application/>")>>, <<Parse("<a/>"), Parse("<b/>")>>}

\* the nodes of a graftXMLMerge, graftXMLOverwrite or pruneXMLRemove call
PrimCandidates == {<<Node("manifest", m, "", <<>>)>> : m \in PrimAttribs}

\* the fragment passed as xml: without oldAttrib, or with one
NoOldAttrib == [hasOld |-> FALSE, oldAttrib |-> NoAttrib]
PrimFragments == {NoOldAttrib} \cup {[hasOld |-> TRUE, oldAttrib |-> m] : m \in PrimAttribs}

PrimInit ==
    /\ heap = <<>>
    /\ base = EmptyMunge
    /\ delta = EmptyMunge
    /\ diff = EmptyMunge
    /\ last = NoCall
    /\ made = 0
    /\ original \in PrimOriginals
    /\ config_keeper = Handles(original)
    /\ installed_plugins = NoPlugins
    /\ prepare_queue = EmptyQueue
    /\ pass = NoPass
    /\ plugins_dir = {}

\* one call of a primitive: the document and the fragment before and after
PrimCall(op, nodes, selector, ret, doc, fragment, fragmentAfter) ==
    [op |-> op, pre |-> original, nodes |-> nodes, selector |-> selector, ret |-> ret,
     doc |-> doc, fragment |-> fragment, fragmentAfter |-> fragmentAfter]

\* xml.oldAttrib after graftXMLAttrs: set when the target was resolved
Snapshot(c, fragment) ==
    IF c.ok THEN [hasOld |-> TRUE, oldAttrib |-> c.oldAttrib] ELSE fragment

PrimGraftXML ==
    /\ last.op = "none"
    /\ \E nodes \in PrimNodes, selector \in PrimSelectors, after \in {"", "b;a"} :
         \E c \in {graftXML(original, nodes, selector, after)} :
           last' = PrimCall("graftXML", nodes, selector, c.ok, c.doc, NoOldAttrib, NoOldAttrib)
    /\ UNCHANGED <<heap, base, delta, diff, made, config_keeper, installed_plugins,
                   prepare_queue, pass, original, plugins_dir>>

PrimGraftXMLMerge ==
    /\ last.op = "none"
    /\ \E nodes \in PrimCandidates, selector \in PrimSelectors, fragment \in PrimFragments :
         \E c \in {graftXMLMerge(original, nodes, selector)} :
           last' = PrimCall("graftXMLMerge", nodes, selector, c.ok, c.doc, fragment,
                            Snapshot(c, fragment))
    /\ UNCHANGED <<heap, base, delta, diff, made, config_keeper, installed_plugins,
                   prepare_queue, pass, original, plugins_dir>>

PrimGraftXMLOverwrite ==
    /\ last.op = "none"
    /\ \E nodes \in PrimCandidates, selector \in PrimSelectors, fragment \in PrimFragments :
         \E c \in {graftXMLOverwrite(original, nodes, selector)} :
           last' = PrimCall("graftXMLOverwrite", nodes, selector, c.ok, c.doc, fragment,
                            Snapshot(c, fragment))
    /\ UNCHANGED <<heap, base, delta, diff, made, config_keeper, installed_plugins,
                   prepare_queue, pass, original, plugins_dir>>

PrimPruneXML ==
    /\ last.op = "none"
    /\ \E nodes \in PrimNodes, selector \in PrimSelectors :
         \E c \in {pruneXML(original, nodes, selector)} :
           last' = PrimCall("pruneXML", nodes, selector, c.ok, c.doc, NoOldAttrib, NoOldAttrib)
    /\ UNCHANGED <<heap, base, delta, diff, made, config_keeper, installed_plugins,
                   prepare_queue, pass, original, plugins_dir>>

PrimPruneXMLRestore ==
    /\ last.op = "none"
    /\ \E selector \in PrimSelectors, fragment \in PrimFragments :
         \E c \in {pruneXMLRestore(original, selector, fragment)} :
           last' = PrimCall("pruneXMLRestore", <<>>, selector, c.ok, c.doc, fragment, fragment)
    /\ UNCHANGED <<heap, base, delta, diff, made, config_keeper, installed_plugins,
                   prepare_queue, pass, original, plugins_dir>>

PrimPruneXMLRemove ==
    /\ last.op = "none"
    /\ \E nodes \in PrimCandidates, selector \in PrimSelectors :
         \E c \in {pruneXMLRemove(original, selector, nodes)} :
           last' = PrimCall("pruneXMLRemove", nodes, selector, c.ok, c.doc,
                            NoOldAttrib, NoOldAttrib)
    /\ UNCHANGED <<heap, base, delta, diff, made, config_keeper, installed_plugins,
                   prepare_queue, pass, original, plugins_dir>>

PrimNext ==
    \/ PrimGraftXML
    \/ PrimGraftXMLMerge
    \/ PrimGraftXMLOverwrite
    \/ PrimPruneXML
    \/ PrimPruneXMLRestore
    \/ PrimPruneXMLRemove

SpecPrim == PrimInit /\ [][PrimNext]_vars

\* C31: after a pruneXMLRemove that returned true the target has none of
\* the attribute keys of the nodes, and every other attribute of the target
\* is as it was.
C31_RemoveDeletesNamedKeys ==
    (last.op = "pruneXMLRemove" /\ last.ret) =>
        /\ DOMAIN TargetAttrib(last.doc, last.selector)
              = DOMAIN TargetAttrib(last.pre, last.selector) \ Named(last.nodes)
        /\ \A k \in DOMAIN TargetAttrib(last.doc, last.selector) :
              TargetAttrib(last.doc, last.selector)[k]
                 = TargetAttrib(last.pre, last.selector)[k]

\* after a pruneXMLRemove that returned true the target has none of the
\* keys of the nodes that had a value other than the empty string, and every
\* other attribute is as it was
RemoveDeletesSetKeys ==
    (last.op = "pruneXMLRemove" /\ last.ret) =>
        /\ DOMAIN TargetAttrib(last.doc, last.selector)
              = {k \in DOMAIN TargetAttrib(last.pre, last.selector) :
                    k \notin Named(last.nodes) \/ TargetAttrib(last.pre, last.selector)[k] = ""}
        /\ \A k \in DOMAIN TargetAttrib(last.doc, last.selector) :
              TargetAttrib(last.doc, last.selector)[k]
                 = TargetAttrib(last.pre, last.selector)[k]

\* C32: a tree primitive that returned false has left the document and the
\* fragment as they were; a graftXML that returned false has left no parent
\* it created.
C32_FalseLeavesUnchanged ==
    (last.op # "none" /\ ~last.ret) =>
        /\ last.doc = last.pre
        /\ last.fragmentAfter = last.fragment

\* a graftXML at /widget/application on a manifest has returned false: the
\* parents it goes on to create are below a root the document does not have
C32_Witness ==
    /\ last.op = "graftXML"
    /\ ~last.ret
    /\ last.selector = "/widget/application"
    /\ last.pre.tag = "manifest"
    /\ last.doc = last.pre

(***************************************************************************)
(* graftXMLMerge / graftXMLOverwrite applied with one fragment, applied    *)
(* with it again, and pruneXMLRestore with it.                             *)
(***************************************************************************)
GraftOps == {"graftXMLMerge", "graftXMLOverwrite"}

\* the call the mode of the fragment selects
GraftAttrs(op, doc, nodes, selector) ==
    IF op = "graftXMLMerge" THEN graftXMLMerge(doc, nodes, selector)
    ELSE graftXMLOverwrite(doc, nodes, selector)

\* the first application, with a fragment that has no oldAttrib yet
GraftFirst ==
    /\ last.op = "none"
    /\ \E op \in GraftOps, nodes \in Candidates, selector \in XmlSelectors :
         \E c \in {GraftAttrs(op, original, nodes, selector)} :
           last' = [op |-> op, graft |-> op, times |-> 1, nodes |-> nodes, selector |-> selector,
                    ret |-> c.ok, doc |-> c.doc, fragment |-> Snapshot(c, NoOldAttrib)]
    /\ UNCHANGED <<heap, base, delta, diff, made, config_keeper, installed_plugins,
                   prepare_queue, pass, original, plugins_dir>>

\* the same call with the same fragment on the document the first one left
GraftAgain ==
    /\ last.op \in GraftOps
    /\ last.times = 1
    /\ \E c \in {GraftAttrs(last.op, last.doc, last.nodes, last.selector)} :
         last' = [last EXCEPT !.times = 2, !.ret = c.ok, !.doc = c.doc,
                              !.fragment = Snapshot(c, last.fragment)]
    /\ UNCHANGED <<heap, base, delta, diff, made, config_keeper, installed_plugins,
                   prepare_queue, pass, original, plugins_dir>>

\* pruneXMLRestore with the fragment, after one application or two
RestoreFragment ==
    /\ last.op \in GraftOps
    /\ \E c \in {pruneXMLRestore(last.doc, last.selector, last.fragment)} :
         last' = [last EXCEPT !.op = "pruneXMLRestore", !.ret = c.ok, !.doc = c.doc]
    /\ UNCHANGED <<heap, base, delta, diff, made, config_keeper, installed_plugins,
                   prepare_queue, pass, original, plugins_dir>>

TwiceNext ==
    \/ GraftFirst
    \/ GraftAgain
    \/ RestoreFragment

SpecTwice == AttrInit /\ [][TwiceNext]_vars

\* C33: a second graftXMLMerge or graftXMLOverwrite with the same fragment
\* leaves in oldAttrib the target's attributes of before the first one, and
\* a pruneXMLRestore after it restores those.
C33_SnapshotOfFirst ==
    /\ (last.op \in GraftOps /\ last.times = 2 /\ last.ret) =>
          last.fragment.oldAttrib = TargetAttrib(original, last.selector)
    /\ (last.op = "pruneXMLRestore" /\ last.times = 2 /\ last.ret) =>
          TargetAttrib(last.doc, last.selector) = TargetAttrib(original, last.selector)

\* the second application stores the attributes the first one left, and a
\* pruneXMLRestore after it restores those
SnapshotOfLast ==
    /\ (last.op \in GraftOps /\ last.times = 2 /\ last.ret) =>
          /\ last.fragment.oldAttrib
                = TargetAttrib(GraftAttrs(last.op, original, last.nodes, last.selector).doc,
                               last.selector)
          /\ last.fragment.oldAttrib = TargetAttrib(last.doc, last.selector)
    /\ (last.op = "pruneXMLRestore" /\ last.times = 2 /\ last.ret) =>
          TargetAttrib(last.doc, last.selector)
             = TargetAttrib(GraftAttrs(last.graft, original, last.nodes, last.selector).doc,
                            last.selector)

(***************************************************************************)
(* mergeXml: one call on a destination document with a source document.    *)
(* Names and values of preference elements in the model are not empty.     *)
(***************************************************************************)
MaxMergeKids == 2

BLACKLIST == {"platform", "feature", "plugin", "engine"}
SINGLETONS == {"content", "author", "name"}

\* text.replace(/\s+/, '') on the texts of the model: "", " " and words
format(text) == IF text = " " THEN "" ELSE text

textMatch(elm1, elm2) ==
    \/ format(elm1.text) = ""
    \/ format(elm1.text) = format(elm2.text)

\* the index of the first element that passes the test, 0 if there is none
FirstWhere(kids, Test(_)) ==
    Bind({i \in 1..Len(kids) : Test(kids[i])}, LAMBDA found :
      IF found = {} THEN 0 ELSE CHOOSE i \in found : \A j \in found : i <= j)

\* findall('preference[@name][@value]')
IsPreference(e) ==
    /\ e.tag = "preference"
    /\ "name" \in DOMAIN e.attrib
    /\ "value" \in DOMAIN e.attrib

PreferenceOf(key, value) ==
    Node("preference", ("name" :> key) @@ ("value" :> value), "", <<>>)

\* a reduce that keeps the first value of each name
FirstValue(prefs, key) ==
    prefs[CHOOSE i \in 1..Len(prefs) :
            /\ prefs[i].attrib.name = key
            /\ \A j \in 1..(i - 1) : prefs[j].attrib.name # key].attrib.value

\* prefHash[key] after the reduce: the value of the last preference named key
LastValue(prefs, key) ==
    prefs[CHOOSE i \in 1..Len(prefs) :
            /\ prefs[i].attrib.name = key
            /\ \A j \in (i + 1)..Len(prefs) : prefs[j].attrib.name # key].attrib.value

RECURSIVE PreferencesOf(_, _)
PreferencesOf(keys, prefs) ==
    IF keys = <<>> THEN <<>>
    ELSE <<PreferenceOf(Head(keys), LastValue(prefs, Head(keys)))>>
           \o PreferencesOf(Tail(keys), prefs)

RECURSIVE NamesOf(_)
NamesOf(prefs) ==
    IF prefs = <<>> THEN <<>> ELSE <<Head(prefs).attrib.name>> \o NamesOf(Tail(prefs))

removeDuplicatePreferences(xml) ==
    Bind(SelectSeq(xml.kids, IsPreference), LAMBDA prefs :
      [xml EXCEPT !.kids =
         SelectSeq(xml.kids, LAMBDA e : ~IsPreference(e))
           \o PreferencesOf(Dedup(NamesOf(prefs)), prefs)])

\* the attribute loop of mergeXml
mergeAttribs(src, dest, clobber) ==
    [attribute \in DOMAIN dest \cup DOMAIN src |->
        IF /\ attribute \in DOMAIN src
           /\ \/ clobber
              \/ attribute \notin DOMAIN dest
              \/ dest[attribute] = ""
        THEN src[attribute] ELSE dest[attribute]]

\* the children of the platform elements of src named platform
RECURSIVE platformChildren(_, _)
platformChildren(kids, platform) ==
    IF kids = <<>> THEN <<>>
    ELSE (IF /\ Head(kids).tag = "platform"
             /\ "name" \in DOMAIN Head(kids).attrib
             /\ Head(kids).attrib.name = platform
          THEN Head(kids).kids ELSE <<>>) \o platformChildren(Tail(kids), platform)

\* the child of dest that mergeChild merges srcChild into: its index, 0 for none
destChildOf(dest, srcChild) ==
    IF srcChild.tag \in SINGLETONS
    THEN FirstWhere(dest.kids, LAMBDA el : el.tag = srcChild.tag)
    ELSE FirstWhere(dest.kids, LAMBDA el : /\ el.tag = srcChild.tag
                                           /\ textMatch(srcChild, el)
                                           /\ attribMatch(srcChild, el))

RECURSIVE mergeXml(_, _, _, _)
RECURSIVE mergeChild(_, _, _, _)
RECURSIVE mergeChildren(_, _, _, _)

mergeChild(dest, srcChild, platform, clobber) ==
    IF srcChild.tag \in BLACKLIST THEN dest
    ELSE Bind(destChildOf(dest, srcChild), LAMBDA i :
           IF i = 0
           THEN [dest EXCEPT !.kids =
                   Append(dest.kids,
                          mergeXml(srcChild, Node(srcChild.tag, NoAttrib, "", <<>>),
                                   platform, clobber))]
           ELSE [dest EXCEPT !.kids =
                   Append(RemoveAt(dest.kids, i),
                          mergeXml(srcChild, dest.kids[i], platform,
                                   clobber /\ srcChild.tag \in SINGLETONS))])

mergeChildren(dest, children, platform, clobber) ==
    IF children = <<>> THEN dest
    ELSE mergeChildren(mergeChild(dest, Head(children), platform, clobber),
                       Tail(children), platform, clobber)

mergeXml(src, dest, platform, clobber) ==
    IF src.tag \in BLACKLIST THEN dest
    ELSE removeDuplicatePreferences(
           mergeChildren(
             mergeChildren(
               [dest EXCEPT !.attrib = mergeAttribs(src.attrib, dest.attrib, clobber),
                            !.text = IF src.text # "" /\ (clobber \/ dest.text = "")
                                     THEN src.text ELSE dest.text],
               src.kids, platform, clobber),
             IF platform = "" THEN <<>> ELSE platformChildren(src.kids, platform),
             platform, clobber))

MergeNames == {"n", "m"}

MergeDestKids ==
    {PreferenceOf("n", "1"), PreferenceOf("n", "2"), PreferenceOf("m", "1"),
     Node("preference", "name" :> "n", "", <<>>),
     Node("content", "src" :> "a", "", <<>>)}

MergeSrcKids ==
    {PreferenceOf("n", "1"), PreferenceOf("n", "3"), PreferenceOf("m", "3"),
     Node("content", "src" :> "b", "", <<>>),
     Node("platform", "name" :> "android", "", <<PreferenceOf("n", "4")>>),
     Node("platform", "name" :> "ios", "", <<PreferenceOf("n", "5")>>)}

\* the sequences of at most n elements of S
RECURSIVE KidsUpTo(_, _)
KidsUpTo(S, n) ==
    IF n = 0 THEN {<<>>}
    ELSE KidsUpTo(S, n - 1) \cup {Append(k, e) : k \in KidsUpTo(S, n - 1), e \in S}

MergeDests ==
    {Node("widget", attrib, text, kids) :
        attrib \in {NoAttrib, "id" :> "", "id" :> "d"},
        text \in {"", " ", "t"},
        kids \in KidsUpTo(MergeDestKids, MaxMergeKids)}

MergeSrcs ==
    {Node(tag, attrib, text, kids) :
        tag \in {"widget", "plugin"},
        attrib \in {NoAttrib, "id" :> "s"},
        text \in {"", "u"},
        kids \in KidsUpTo(MergeSrcKids, MaxMergeKids)}

MergeInit ==
    /\ heap = <<>>
    /\ base = EmptyMunge
    /\ delta = EmptyMunge
    /\ diff = EmptyMunge
    /\ last = NoCall
    /\ made = 0
    /\ original \in MergeDests
    /\ config_keeper = Handles(original)
    /\ installed_plugins = NoPlugins
    /\ prepare_queue = EmptyQueue
    /\ pass = NoPass
    /\ plugins_dir = {}

\* mergeXml(src, dest, platform, clobber) on the document dest
MergeXml ==
    /\ last.op = "none"
    /\ \E src \in MergeSrcs, platform \in {"", "android"}, clobber \in BOOLEAN :
         last' = [op |-> "mergeXml", src |-> src, platform |-> platform,
                  clobber |-> clobber,
                  dest |-> mergeXml(src, original, platform, clobber)]
    /\ UNCHANGED <<heap, base, delta, diff, made, config_keeper, installed_plugins,
                   prepare_queue, pass, original, plugins_dir>>

MergeNext == MergeXml

SpecMerge == MergeInit /\ [][MergeNext]_vars

\* the preferences that a call merges into dest, in the order of the merge
MergedIn(src, platform) ==
    IF src.tag \in BLACKLIST THEN <<>>
    ELSE SelectSeq(src.kids, IsPreference)
           \o (IF platform = "" THEN <<>>
               ELSE SelectSeq(platformChildren(src.kids, platform), IsPreference))

\* dest's own preferences followed by the merged-in ones
Writers(c) == SelectSeq(original.kids, IsPreference) \o MergedIn(c.src, c.platform)

\* the value of the writer named key that comes last
ValueOfLast(writers, key) ==
    Bind({i \in 1..Len(writers) : writers[i].attrib.name = key}, LAMBDA named :
      writers[CHOOSE i \in named : \A j \in named : j <= i].attrib.value)

\* at most one preference per name, with the value of the last writer
OnePerName(c) ==
    \A key \in MergeNames :
      Bind({i \in 1..Len(c.dest.kids) :
               IsPreference(c.dest.kids[i]) /\ c.dest.kids[i].attrib.name = key},
           LAMBDA found :
             /\ Cardinality(found) <= 1
             /\ (\E i \in 1..Len(Writers(c)) : Writers(c)[i].attrib.name = key) =>
                  \E i \in found : c.dest.kids[i].attrib.value = ValueOfLast(Writers(c), key))

C35_ClobberFalseAdditive ==
    (last.op = "mergeXml" /\ ~last.clobber) =>
       /\ \A attribute \in DOMAIN original.attrib :
            /\ attribute \in DOMAIN last.dest.attrib
            /\ last.dest.attrib[attribute] = original.attrib[attribute]
       /\ original.text # "" => last.dest.text = original.text

\* with clobber false the attributes of dest with a value that is not empty,
\* and a text that is not empty, are kept; an attribute whose value is the
\* empty string is replaced by the one of src
AdditiveOnSetValues ==
    (last.op = "mergeXml" /\ ~last.clobber) =>
       /\ \A attribute \in DOMAIN original.attrib :
            /\ attribute \in DOMAIN last.dest.attrib
            /\ last.dest.attrib[attribute] =
                 IF original.attrib[attribute] = "" /\ attribute \in DOMAIN last.src.attrib
                    /\ last.src.tag \notin BLACKLIST
                 THEN last.src.attrib[attribute] ELSE original.attrib[attribute]
       /\ original.text # "" => last.dest.text = original.text

(***************************************************************************)
(* One ConfigFile handle: the constructor, then calls of graft_child,      *)
(* prune_child and save on it.                                             *)
(***************************************************************************)
MaxFileCalls == 3

\* the xml_child objects of the calls
FileChildren ==
    << Element("<a/>", 1, "", ""), Element("<b/>", 1, "b;a", ""),
       Element("<manifest v='1'/>", 1, "", "merge"),
       Element("<manifest v='2'/>", 1, "", "overwrite"),
       Element("<manifest v='1'/>", 1, "", "remove") >>

FileSelectors == {"/manifest", "/widget"}

\* the handle of the model
TheFile == config_keeper["AndroidManifest.xml"]

FileInit ==
    /\ heap = FileChildren
    /\ base = EmptyMunge
    /\ delta = EmptyMunge
    /\ diff = EmptyMunge
    /\ last = NoCall
    /\ made = 0
    /\ original \in XmlOriginals
    /\ config_keeper = Handles(original)
    /\ installed_plugins = NoPlugins
    /\ prepare_queue = EmptyQueue
    /\ pass = NoPass
    /\ plugins_dir = {}

\* one call on the handle: whether it threw, and is_changed before it
FileCall(op, err, was) == [op |-> op, err |-> err, was |-> was]

FileGraftChild ==
    /\ made < MaxFileCalls
    /\ \E selector \in FileSelectors, r \in 1..Len(heap) :
         \E o \in {graft_child(heap, TheFile, selector, r)} :
           /\ heap' = o.heap
           /\ config_keeper' = [config_keeper EXCEPT !["AndroidManifest.xml"] = o.cf]
           /\ last' = FileCall("graft_child", o.err, TheFile.is_changed)
    /\ made' = made + 1
    /\ UNCHANGED <<base, delta, diff, installed_plugins, prepare_queue, pass, original,
                   plugins_dir>>

FilePruneChild ==
    /\ made < MaxFileCalls
    /\ \E selector \in FileSelectors, r \in 1..Len(heap) :
         \E o \in {prune_child(heap, TheFile, selector, r)} :
           /\ heap' = o.heap
           /\ config_keeper' = [config_keeper EXCEPT !["AndroidManifest.xml"] = o.cf]
           /\ last' = FileCall("prune_child", o.err, TheFile.is_changed)
    /\ made' = made + 1
    /\ UNCHANGED <<base, delta, diff, installed_plugins, prepare_queue, pass, original,
                   plugins_dir>>

FileSave ==
    /\ made < MaxFileCalls
    /\ config_keeper' = [config_keeper EXCEPT !["AndroidManifest.xml"] = save(TheFile)]
    /\ last' = FileCall("save", FALSE, TheFile.is_changed)
    /\ made' = made + 1
    /\ UNCHANGED <<heap, base, delta, diff, installed_plugins, prepare_queue, pass,
                   original, plugins_dir>>

FileNext ==
    \/ FileGraftChild
    \/ FilePruneChild
    \/ FileSave

SpecFile == FileInit /\ [][FileNext]_vars

\* C36: is_changed is false after construction, true after every graft_child
\* or prune_child that returns normally, unchanged by one that throws, and
\* false after save.
C36_IsChanged ==
    /\ last.op = "none" => ~TheFile.is_changed
    /\ (last.op \in {"graft_child", "prune_child"} /\ ~last.err) => TheFile.is_changed
    /\ (last.op \in {"graft_child", "prune_child"} /\ last.err) =>
          TheFile.is_changed = last.was
    /\ last.op = "save" => ~TheFile.is_changed

\* a save cleared the flag that a graft had set, and a prune_child then threw
C36_Witness ==
    /\ last.op = "prune_child"
    /\ last.err
    /\ ~last.was
    /\ made = MaxFileCalls
    /\ TheFile.data # original

\* C38 (under SpecVars): in every reachable persisted state no plugin
\* is at the same time in prepare_queue.installed and in
\* prepare_queue.uninstalled.
C38_NeverBothQueued ==
    Range(QueuedPlugins(prepare_queue.installed))
      \cap Range(QueuedPlugins(prepare_queue.uninstalled)) = {}

\* a plugin that is in both queues is an installed plugin that the pass
\* installs again
BothQueuedIsInstalled ==
    Range(QueuedPlugins(prepare_queue.installed))
      \cap Range(QueuedPlugins(prepare_queue.uninstalled)) \subseteq DOMAIN installed_plugins

(***************************************************************************)
(* Two invocations against the state file of one platform.  Each one loads *)
(* the Persisted Platform State, queues its own request, runs the pass in  *)
(* memory and saves.  The read and the write of the file are the steps     *)
(* that interleave; nothing between them waits for the other invocation.   *)
(***************************************************************************)
MaxRacePasses == 3

Invocations == {1, 2}
RacePluginIds == {"A", "B", "X"}

\* the root object of a state file
Root(h, m, installed, queue) ==
    [heap |-> h, munge |-> m, installed |-> installed, queue |-> queue]

\* a save that keeps the installed_plugins entries the file has
PlatformJsonSaveMerging(onDisk, root) ==
    [root EXCEPT !.installed =
        [p \in DOMAIN onDisk.installed \cup DOMAIN root.installed |->
            IF p \in DOMAIN root.installed THEN root.installed[p] ELSE onDisk.installed[p]]]

\* PlatformJson.save: the file is replaced by the root object in memory
PlatformJsonSave(onDisk, root) == root

\* an invocation that holds nothing in memory
Idle == [pc |-> "idle", root |-> Root(<<>>, EmptyMunge, NoPlugins, EmptyQueue),
         keeper |-> Handles(NoData), request |-> UninstallRequest(""), install |-> FALSE,
         stamp |-> 0]

RaceInit ==
    /\ heap = <<>>
    /\ base = EmptyMunge
    /\ delta = EmptyMunge
    /\ diff = EmptyMunge
    /\ last = [i \in Invocations |-> Idle]
    /\ made = 0
    /\ original \in Originals
    /\ config_keeper = Handles(original)
    /\ installed_plugins = NoPlugins
    /\ prepare_queue = EmptyQueue
    /\ pass = NoPass
    /\ plugins_dir = RacePluginIds

\* what invocation i holds once it has loaded the files and queued req
Loaded(req, install) ==
    [pc |-> "loaded",
     root |-> Root(heap, base, installed_plugins,
                   IF install
                   THEN [prepare_queue EXCEPT !.installed = Append(@, req)]
                   ELSE [prepare_queue EXCEPT !.uninstalled = Append(@, req)]),
     keeper |-> config_keeper, request |-> req, install |-> install, stamp |-> made]

\* PlatformJson.load and the request of the invocation: an install of a
\* plugin that the loaded state does not have, or an uninstall of one it has
RaceLoad(i) ==
    /\ made < MaxRacePasses
    /\ last[i].pc = "idle"
    /\ \/ \E p \in plugins_dir \ DOMAIN installed_plugins :
            last' = [last EXCEPT ![i] = Loaded(InstallRequest(p, NoVars, FALSE), TRUE)]
       \/ \E p \in DOMAIN installed_plugins :
            last' = [last EXCEPT ![i] = Loaded(UninstallRequest(p), FALSE)]
    /\ UNCHANGED <<heap, base, delta, diff, made, config_keeper, installed_plugins,
                   prepare_queue, pass, original, plugins_dir>>

\* the record of a pass of invocation i: what it had loaded, what the files
\* held right before it saved, and the save before it
RacePass(i, st) ==
    [op |-> "save", by |-> i, err |-> st.err, request |-> last[i].request,
     install |-> last[i].install, stamp |-> last[i].stamp,
     loaded |-> last[i].root.installed,
     before |-> installed_plugins, beforeMunge |-> Deref(heap, base),
     computedMunge |-> Deref(st.heap, st.munge),
     prevBy |-> IF pass.op = "save" THEN pass.by ELSE 0,
     prevStamp |-> IF pass.op = "save" THEN pass.stamp ELSE 0]

\* process on what was loaded, then PlatformJson.save and the save of the
\* config files; a pass that fails saves nothing
RaceSave(i) ==
    /\ last[i].pc = "loaded"
    /\ \E st \in {process(PassState(last[i].root.heap, last[i].root.munge, last[i].keeper,
                                    last[i].root.installed), last[i].root.queue)} :
         /\ pass' = RacePass(i, st)
         /\ IF st.err
            THEN UNCHANGED <<heap, base, delta, diff, config_keeper, installed_plugins,
                             prepare_queue>>
            ELSE \E root \in {PlatformJsonSave(
                                Root(heap, base, installed_plugins, prepare_queue),
                                Root(st.heap, st.munge, st.installed, EmptyQueue))} :
                   /\ Store(root.heap, root.munge, EmptyMunge, EmptyMunge)
                   /\ config_keeper' = st.keeper
                   /\ installed_plugins' = root.installed
                   /\ prepare_queue' = root.queue
    /\ last' = [last EXCEPT ![i] = Idle]
    /\ made' = made + 1
    /\ UNCHANGED <<original, plugins_dir>>

RaceNext ==
    \/ \E i \in Invocations : RaceLoad(i)
    \/ \E i \in Invocations : RaceSave(i)

SpecRace == RaceInit /\ [][RaceNext]_vars

\* installed_plugins as the request of a pass changes the loaded one
AfterRequest(loaded, req, install) ==
    IF install
    THEN [p \in DOMAIN loaded \cup {req.plugin} |->
            IF p = req.plugin THEN req.vars ELSE loaded[p]]
    ELSE [p \in DOMAIN loaded \ {req.plugin} |-> loaded[p]]

\* C37: two passes on one state file are not isolated and the last writer
\* wins: what a save leaves in the file is what its pass made of the state it
\* had loaded, whatever another invocation has saved since that load.
C37_LastWriterWins ==
    (pass.op = "save" /\ ~pass.err) =>
       /\ installed_plugins = AfterRequest(pass.loaded, pass.request, pass.install)
       /\ Deref(heap, base) = pass.computedMunge

\* both invocations loaded the same state, the other one saved the install
\* of a plugin, and the save of this one has removed that plugin from
\* installed_plugins and its fragment from config_munge
C37_Witness ==
    /\ pass.op = "save"
    /\ ~pass.err
    /\ pass.prevBy \in Invocations \ {pass.by}
    /\ pass.prevStamp = pass.stamp
    /\ \E p \in DOMAIN pass.before \ DOMAIN pass.loaded :
         /\ p \notin DOMAIN installed_plugins
         /\ ViewHas(pass.beforeMunge, ConfigChanges(p)[1][1], ConfigChanges(p)[1][2],
                    ConfigChanges(p)[1][3])
         /\ ~ViewHas(Deref(heap, base), ConfigChanges(p)[1][1], ConfigChanges(p)[1][2],
                     ConfigChanges(p)[1][3])

\* C39 (under SpecMunge): increment_munge and decrement_munge leave every
\* fragment of the delta passed to them with the count it had before the
\* call; base holds its own counts.
C39_DeltaCountsKept ==
    last.op \in {"increment_munge", "decrement_munge"} =>
       \A t \in ViewTriples(last.preDelta) :
          /\ ViewHas(Deref(heap, delta), t[1], t[2], t[3])
          /\ CountIn(Deref(heap, delta), t) = CountIn(last.preDelta, t)

\* the children of the root of AndroidManifest.xml that equal the fragment
EqualKids(doc, xml) == {i \in 1..Len(doc.kids) : equalNodes(Parse(xml), doc.kids[i])}

\* C40 (under SpecProc): when the original document has a child equal to a
\* fragment a plugin declares for /manifest, the pass that uninstalls the
\* plugin, the only one installed, leaves that child in the document.
C40_OriginalChildKept ==
    (/\ pass.op = "process"
     /\ ~pass.err
     /\ Len(pass.installed) = 0
     /\ Len(pass.uninstalled) = 1
     /\ DOMAIN pass.preInstalled = {pass.uninstalled[1]}) =>
       \A c \in Range(ConfigChanges(pass.uninstalled[1])) :
          (/\ c[1] = "AndroidManifest.xml"
           /\ c[2] = "/manifest"
           /\ EqualKids(original, c[3]) # {}) =>
             EqualKids(config_keeper["AndroidManifest.xml"].data, c[3]) # {}

====
